---- MODULE Spec2Model ----
(***************************************************************************)
(* Authentication and authorization core of everato: the TokenSigner, the  *)
(* two guard middlewares (AuthMiddleware.Guard, AdminMiddleware.Guard) and *)
(* the admin service handlers with their permission checks.                *)
(*                                                                         *)
(* A request is served by one action: the guard runs, and when it calls    *)
(* next the protected handler runs in the same step.  The outcome is kept  *)
(* in resp until the response has been delivered (Respond).  The parts on  *)
(* requests served at the same time and on the email goroutines keep the   *)
(* shared connection in conn, the requests in flight in inflight and the   *)
(* goroutines in mail.                                                     *)
(***************************************************************************)
EXTENDS Integers, Sequences, FiniteSets, TLC

VARIABLES store, users, pc, req, resp, conn, inflight, mail

vars == <<store, users, pc, req, resp, conn, inflight, mail>>

(***************************************************************************)
(* Bounds                                                                  *)
(***************************************************************************)
\* number of rows the super_users table can hold in the model
MaxAdmins == 3

AdminUUIDs == 1..MaxAdmins
\* the one row of the users table
UserUUIDs == {100}

(***************************************************************************)
(* Strings that carry ids.  pgtype.UUID.String() prints the canonical      *)
(* lower-case form; pgtype.UUID.Scan hex-decodes its argument, so the      *)
(* upper-case spelling of the same digits scans to the same UUID.  Any     *)
(* other word does not scan.                                               *)
(***************************************************************************)
Canon(u) == [form |-> "canon", u |-> u]
Upper(u) == [form |-> "upper", u |-> u]
Word(w) == [form |-> w, u |-> 0]
EmptyString == Word("")

StringToUUID(s) ==
  IF s.form \in {"canon", "upper"}
    THEN [ok |-> TRUE, uuid |-> s.u]
    ELSE [ok |-> FALSE, uuid |-> 0]

(***************************************************************************)
(* Roles and permissions (admin_dto.go)                                    *)
(***************************************************************************)
ADMIN_ROLE_SUPERADMIN == "SUPER_ADMIN"
ADMIN_ROLE_ADMIN == "ADMIN"
ADMIN_ROLE_EDITOR == "EDITOR"
validRoles == {ADMIN_ROLE_SUPERADMIN, ADMIN_ROLE_ADMIN, ADMIN_ROLE_EDITOR}

ADMIN_PERMISSION_MANAGE_USERS == "MANAGE_USERS"
ADMIN_PERMISSION_VIEW_REPORTS == "VIEW_REPORTS"
\* the two of the twelve permissions the model uses: the one the handlers
\* test and one they never test
validPermissions == {ADMIN_PERMISSION_MANAGE_USERS, ADMIN_PERMISSION_VIEW_REPORTS}

(***************************************************************************)
(* The super_users table: a row per UUID, exists = FALSE when there is no  *)
(* such row.                                                               *)
(***************************************************************************)
NoRow == [exists |-> FALSE, role |-> "", perms |-> {}, username |-> 0, email |-> 0]
Row(role, perms, username, email) ==
  [exists |-> TRUE, role |-> role, perms |-> perms, username |-> username, email |-> email]

\* CreateSuperUserIfNotExists: the bootstrap row, SUPER_ADMIN with every permission
CreateSuperUserIfNotExists ==
  [u \in AdminUUIDs |->
     IF u = 1 THEN Row(ADMIN_ROLE_SUPERADMIN, validPermissions, 1, 1) ELSE NoRow]

\* GetAdminById: the row, or pgx.ErrNoRows, or another error when the
\* database fails
GetAdminById(st, uuid, dbFails) ==
  IF dbFails THEN [err |-> "db", row |-> NoRow]
  ELSE IF uuid \in AdminUUIDs /\ st[uuid].exists THEN [err |-> "nil", row |-> st[uuid]]
  ELSE [err |-> "ErrNoRows", row |-> NoRow]

(***************************************************************************)
(* Tokens.  A compact token is the empty string, text that does not parse  *)
(* as a JWT, or a JWT with a declared algorithm, the key its signature was *)
(* made with, and its claims.                                              *)
(***************************************************************************)
\* num is the Go type of a claim that is a number: an int as a caller may
\* put it in the claims, a float64 as encoding/json decodes every number
StrUid(s) == [present |-> TRUE, isString |-> TRUE, s |-> s, num |-> ""]
NumUid == [present |-> TRUE, isString |-> FALSE, s |-> Word("42"), num |-> "float64"]
IntUid == [present |-> TRUE, isString |-> FALSE, s |-> Word("42"), num |-> "int"]
NoUid == [present |-> FALSE, isString |-> FALSE, s |-> EmptyString, num |-> ""]

\* a claim after json.Marshal by SignedString and json.Unmarshal by Parse
JSONClaim(c) == IF c.num = "int" THEN [c EXCEPT !.num = "float64"] ELSE c

\* utils.GetEnv("JWT_SECRET", "SUPER_SECRET_KEY") with JWT_SECRET unset
JWT_SECRET == "SUPER_SECRET_KEY"

HMACAlgs == {"HS256", "HS384"}

Jwt(alg, key, tampered, expired, uid) ==
  [kind |-> "jwt", alg |-> alg, key |-> key, tampered |-> tampered,
   expired |-> expired, uid |-> uid]
EmptyToken == [kind |-> "empty", alg |-> "", key |-> "", tampered |-> FALSE,
               expired |-> FALSE, uid |-> NoUid]
GarbageToken == [kind |-> "garbage", alg |-> "", key |-> "", tampered |-> FALSE,
                 expired |-> FALSE, uid |-> NoUid]

Sign_FixedKey(key, expired, uid) == Jwt("HS256", "", FALSE, expired, JSONClaim(uid))

\* TokenSigner.Sign: HS256 over the JSON of the payload with the signer's key
Sign(key, expired, uid) == Jwt("HS256", key, FALSE, expired, JSONClaim(uid))

isHMAC_Any(alg) == TRUE

\* token.Method.(*jwt.SigningMethodHMAC)
isHMAC(alg) == alg \in HMACAlgs

SignatureValid_Unverified(key, t) == TRUE

\* the HMAC of the signing input under the key equals the token's signature
SignatureValid(key, t) == t.key = key /\ ~t.tampered

Expired_Never(t) == FALSE

\* the exp claim lies in the past
Expired(t) == t.expired

\* the value Verify returns with an error
VerifyError(keyed) == [ok |-> FALSE, claims |-> NoUid, keyed |-> keyed]

\* TokenSigner.Verify: jwt.Parse with a key function that refuses every
\* method outside the HMAC family, then the signature, then exp; keyed tells
\* whether the key function handed out the key
Verify(key, t) ==
  IF t.kind # "jwt" THEN VerifyError(FALSE)
  ELSE IF ~isHMAC(t.alg) THEN VerifyError(FALSE)
  ELSE IF ~SignatureValid(key, t) THEN VerifyError(TRUE)
  ELSE IF Expired(t) THEN VerifyError(TRUE)
  ELSE [ok |-> TRUE, claims |-> t.uid, keyed |-> TRUE]

(***************************************************************************)
(* Requests: the path as strings.Split(path, "/") returns it, the two      *)
(* cookies and the Authorization header.                                   *)
(***************************************************************************)
NoCookie == [present |-> FALSE, tok |-> EmptyToken]
Cookie(t) == [present |-> TRUE, tok |-> t]
NoHeader == [scheme |-> "", tok |-> EmptyToken]
Bearer(t) == [scheme |-> "Bearer ", tok |-> t]
Basic(t) == [scheme |-> "Basic ", tok |-> t]

HasSuffix2(path, a, b) ==
  Len(path) >= 3 /\ path[Len(path) - 1] = a /\ path[Len(path)] = b

isUnauthenticatedAllowedPath_ExactOnly(path) ==
  path \in {<<"", "auth", "login">>, <<"", "auth", "register">>}

\* isUnauthenticatedAllowedPath
isUnauthenticatedAllowedPath(path) ==
  \E p \in {<<"auth", "login">>, <<"auth", "register">>} :
     \/ path = <<"">> \o p
     \/ /\ HasSuffix2(path, p[1], p[2])
        /\ Len(path) >= 3 /\ path[1] = "" /\ path[2] = "api"

isAdminPublicPath_ExactOnly(path) == path = <<"", "admin", "login">>

\* isAdminPublicPath
isAdminPublicPath(path) ==
  /\ Len(path) >= 2 /\ path[Len(path)] = "login"
  /\ \E i \in 1..Len(path) :
        path[i] = "admin" /\ i < Len(path) /\ path[i + 1] = "login"

\* strings.CutPrefix(authHeader, AuthBearerPrefix)
CutBearer(h) ==
  IF h.scheme = "Bearer " THEN h.tok ELSE EmptyToken

\* AuthMiddleware.extractToken
AuthExtractToken(r) ==
  IF r.jwt.present THEN r.jwt.tok ELSE CutBearer(r.auth)

AdminExtractToken_FirstNonEmpty(r) ==
  IF r.admin_jwt.present /\ r.admin_jwt.tok.kind # "empty" THEN r.admin_jwt.tok
  ELSE IF r.jwt.present /\ r.jwt.tok.kind # "empty" THEN r.jwt.tok
  ELSE CutBearer(r.auth)

\* AdminMiddleware.extractToken
AdminExtractToken(r) ==
  IF r.admin_jwt.present THEN r.admin_jwt.tok
  ELSE IF r.jwt.present THEN r.jwt.tok
  ELSE CutBearer(r.auth)

(***************************************************************************)
(* What a guard did with a request                                         *)
(***************************************************************************)
NoCtx == [has |-> FALSE, id |-> EmptyString]
Ctx(s) == [has |-> TRUE, id |-> s]

\* next.ServeHTTP(w, r)
GuardNext(token, verified, lookup, ctx) ==
  [next |-> TRUE, writes |-> 0, status |-> 0, msg |-> "", location |-> "",
   panicked |-> FALSE, token |-> token, verified |-> verified,
   lookup |-> lookup, ctx |-> ctx]

\* the type assertion uid.(string) on a claim that is not a string
GuardPanic(token, verified) ==
  [next |-> FALSE, writes |-> 0, status |-> 0, msg |-> "", location |-> "",
   panicked |-> TRUE, token |-> token, verified |-> verified,
   lookup |-> "none", ctx |-> NoCtx]

\* AuthMiddleware.unauthorized / AdminMiddleware.unauthorized
unauthorized(redirect, loginPage, message, token, verified, lookup) ==
  [next |-> FALSE, writes |-> 1,
   status |-> IF redirect THEN 302 ELSE 401,
   msg |-> IF redirect THEN "" ELSE message,
   location |-> IF redirect THEN loginPage ELSE "",
   panicked |-> FALSE, token |-> token, verified |-> verified,
   lookup |-> lookup, ctx |-> NoCtx]

\* claims["uid"] missing, or equal to the string ""
UidMissing(uid) == ~uid.present \/ (uid.isString /\ uid.s = EmptyString)

\* AuthMiddleware.Guard
AuthGuard(am, r) ==
  LET token == AuthExtractToken(r)
      v == Verify(JWT_SECRET, token)
      public == isUnauthenticatedAllowedPath(r.path)
  IN IF token.kind = "empty"
       THEN IF public THEN GuardNext(token, "no", "none", NoCtx)
            ELSE unauthorized(am.Redirect, "/auth/login",
                              "Token not found or malformed", token, "no", "none")
     ELSE IF ~v.ok
       THEN IF public THEN GuardNext(token, "failed", "none", NoCtx)
            ELSE unauthorized(am.Redirect, "/auth/login",
                              "Invalid or expired token", token, "failed", "none")
     ELSE IF UidMissing(v.claims)
       THEN IF public THEN GuardNext(token, "ok", "none", NoCtx)
            ELSE unauthorized(am.Redirect, "/auth/login",
                              "Token missing UID", token, "ok", "none")
     ELSE IF ~v.claims.isString THEN GuardPanic(token, "ok")
     ELSE GuardNext(token, "ok", "none", Ctx(v.claims.s))

\* AdminMiddleware.verifyAdminStatus
verifyAdminStatus(am, st, uid, dbFails) ==
  IF ~am.Repo THEN [isAdmin |-> FALSE, err |-> "nil"]
  ELSE LET s_uid == StringToUUID(uid)
           admin == GetAdminById(st, s_uid.uuid, dbFails)
       IN IF ~s_uid.ok THEN [isAdmin |-> FALSE, err |-> "scan"]
          ELSE IF admin.err = "ErrNoRows" THEN [isAdmin |-> FALSE, err |-> "nil"]
          ELSE IF admin.err # "nil" THEN [isAdmin |-> FALSE, err |-> "db"]
          ELSE [isAdmin |-> TRUE, err |-> "nil"]

RepoAvailable_RepoOnly(am) == am.Repo

\* am.Repo != nil && am.Conn != nil
RepoAvailable(am) == am.Repo /\ am.Conn

\* AdminMiddleware.Guard
AdminGuard(am, r, st, dbFails) ==
  LET token == AdminExtractToken(r)
      v == Verify(JWT_SECRET, token)
  IN IF isAdminPublicPath(r.path) THEN GuardNext(EmptyToken, "no", "none", NoCtx)
     ELSE IF token.kind = "empty"
       THEN unauthorized(am.Redirect, "/admin/login",
                         "Admin authentication required", token, "no", "none")
     ELSE IF ~v.ok
       THEN unauthorized(am.Redirect, "/admin/login",
                         "Invalid or expired admin token", token, "failed", "none")
     ELSE IF UidMissing(v.claims)
       THEN unauthorized(am.Redirect, "/admin/login",
                         "Token missing UID", token, "ok", "none")
     ELSE IF RepoAvailable(am)
       THEN IF ~v.claims.isString THEN GuardPanic(token, "ok")
            ELSE LET a == verifyAdminStatus(am, st, v.claims.s, dbFails)
                 IN IF a.err # "nil"
                      THEN unauthorized(am.Redirect, "/admin/login",
                                        "Error verifying admin status", token, "ok",
                                        IF a.err = "db" THEN "error" ELSE "scan")
                    ELSE IF a.isAdmin
                      THEN GuardNext(token, "ok", "found", Ctx(v.claims.s))
                    ELSE unauthorized(am.Redirect, "/admin/login",
                                      "Admin privileges required", token, "ok", "notfound")
     ELSE unauthorized(am.Redirect, "/admin/login",
                       "Admin privileges required", token, "ok", "none")

(***************************************************************************)
(* The admin service handlers.  Each returns the response it writes, the   *)
(* outcome of its permission check (perm), of its SUPER_ADMIN assignment   *)
(* check (promo), how its transaction ended (tx) and the table afterwards. *)
(* fault names the database or hashing call that fails, "none" when none   *)
(* does.                                                                   *)
(***************************************************************************)
HRes(status, msg, perm, promo, tx, st, found) ==
  [ran |-> TRUE, status |-> status, msg |-> msg, perm |-> perm, promo |-> promo,
   tx |-> tx, store |-> st, found |-> found]

\* the handler was not reached
NotRun(st) ==
  [ran |-> FALSE, status |-> 0, msg |-> "", perm |-> "none", promo |-> "none",
   tx |-> "none", store |-> st, found |-> {}]

hasManageUsersPermission_Always(row) == TRUE

\* slices.Contains(currentAdmin.Permissions, "MANAGE_USERS") and the loops
\* that do the same
hasManageUsersPermission(row) == ADMIN_PERMISSION_MANAGE_USERS \in row.perms

isSuperAdmin_WithManageUsers(row) ==
  row.role = "SUPER_ADMIN" /\ ADMIN_PERMISSION_MANAGE_USERS \in row.perms

\* currentAdmin.Role == "SUPER_ADMIN"
isSuperAdmin(row) == row.role = "SUPER_ADMIN"

promotionDenied_Never(role, row) == FALSE

\* the requested role is SUPER_ADMIN and the current admin is not one
promotionDenied(role, row) ==
  role = ADMIN_ROLE_SUPERADMIN /\ row.role # "SUPER_ADMIN"

\* the smallest unused id stands for the id the table generates for a new row
TableFull(st) == \A u \in AdminUUIDs : st[u].exists
NewUUID(st) ==
  IF TableFull(st) THEN 0
  ELSE CHOOSE u \in AdminUUIDs : ~st[u].exists /\ \A w \in 1..(u - 1) : st[w].exists

\* CreateAdminDTO.Validate: role required and one of validRoles, permissions
\* with at least one entry, every entry one of validPermissions; fieldsOK
\* stands for the email, username, name and password rules
CreateAdminDTO_Validate(dto) ==
  /\ dto.fieldsOK
  /\ dto.role \in validRoles
  /\ dto.perms # {}
  /\ dto.perms \subseteq validPermissions

\* CreateAdminIfNotExists: no row is inserted (pgx.ErrNoRows) when the
\* username or the email is taken
NameTaken(st, dto) ==
  \E u \in AdminUUIDs :
     st[u].exists /\ (st[u].username = dto.username \/ st[u].email = dto.email)

\* admin.CreateAdmin
CreateAdmin(st, ctx, dto, fault) ==
  LET adminUUID == StringToUUID(ctx.id)
      currentAdmin == GetAdminById(st, adminUUID.uuid, fault = "actor")
      isSuper == isSuperAdmin(currentAdmin.row)
      hasPermission == isSuper \/ hasManageUsersPermission(currentAdmin.row)
      perm == IF hasPermission THEN "pass" ELSE "deny"
      newStore == [u \in AdminUUIDs |->
                     IF u = NewUUID(st)
                       THEN Row(dto.role, dto.perms, dto.username, dto.email)
                       ELSE st[u]]
  IN IF ~dto.parses THEN HRes(400, "Invalid request body", "none", "none", "none", st, {})
     ELSE IF ~CreateAdminDTO_Validate(dto)
       THEN HRes(400, "Invalid admin data format", "none", "none", "none", st, {})
     ELSE IF ~ctx.has THEN HRes(401, "Authentication required", "none", "none", "none", st, {})
     ELSE IF fault = "begin" THEN HRes(500, "Internal server error", "none", "none", "none", st, {})
     ELSE IF ~adminUUID.ok
       THEN HRes(400, "Invalid admin ID format", "none", "none", "rollback", st, {})
     ELSE IF currentAdmin.err # "nil"
       THEN HRes(401, "Authentication failed", "none", "none", "rollback", st, {})
     ELSE IF ~hasPermission
       THEN HRes(403, "Access denied", "deny", "none", "rollback", st, {})
     ELSE IF promotionDenied(dto.role, currentAdmin.row)
       THEN HRes(403, "Access denied", perm, "deny", "rollback", st, {})
     ELSE IF fault = "hash"
       THEN HRes(500, "Failed to create admin account", perm, "pass", "rollback", st, {})
     ELSE IF dto.role \notin validRoles
       THEN HRes(400, "Invalid role", perm, "pass", "rollback", st, {})
     ELSE IF ~(dto.perms \subseteq validPermissions)
       THEN HRes(400, "Invalid permission", perm, "pass", "rollback", st, {})
     ELSE IF NameTaken(st, dto)
       THEN HRes(409, "Admin already exists", perm, "pass", "rollback", st, {})
     ELSE IF fault = "insert"
       THEN HRes(500, "Failed to create admin account", perm, "pass", "rollback", st, {})
     ELSE IF fault = "commit"
       THEN HRes(500, "Internal server error", perm, "pass", "commitfailed", st, {})
     ELSE HRes(201, "Admin account created successfully", perm, "pass", "commit",
               newStore, {NewUUID(st)})

\* UpdateAdminDTO.Validate, run when any field is given: the role, when
\* given and not empty, is one of validRoles
UpdateAdminDTO_Validate(dto) ==
  dto.role \in validRoles \cup {"nil", ""}

\* admin.UpdateAdmin
UpdateAdmin(st, ctx, targetAdminID, dto, fault) ==
  LET currentAdminUUID == StringToUUID(ctx.id)
      targetAdminUUID == StringToUUID(targetAdminID)
      currentAdmin == GetAdminById(st, currentAdminUUID.uuid, fault = "actor")
      targetAdmin == GetAdminById(st, targetAdminUUID.uuid, fault = "target")
      isSelfUpdate == ctx.id = targetAdminID
      isSuper == isSuperAdmin(currentAdmin.row)
      hasUpdatePermission ==
        \/ isSelfUpdate
        \/ isSuper
        \/ (hasManageUsersPermission(currentAdmin.row) /\ targetAdmin.row.role # "SUPER_ADMIN")
  IN IF targetAdminID = EmptyString
       THEN HRes(400, "Missing admin ID", "none", "none", "none", st, {})
     ELSE IF ~dto.parses THEN HRes(400, "Invalid request body", "none", "none", "none", st, {})
     ELSE IF ~UpdateAdminDTO_Validate(dto)
       THEN HRes(400, "Invalid admin data format", "none", "none", "none", st, {})
     ELSE IF ~ctx.has THEN HRes(401, "Authentication required", "none", "none", "none", st, {})
     ELSE IF fault = "begin" THEN HRes(500, "Internal server error", "none", "none", "none", st, {})
     ELSE IF ~currentAdminUUID.ok \/ ~targetAdminUUID.ok
       THEN HRes(400, "Invalid admin ID format", "none", "none", "rollback", st, {})
     ELSE IF currentAdmin.err # "nil"
       THEN HRes(401, "Authentication failed", "none", "none", "rollback", st, {})
     ELSE IF targetAdmin.err # "nil"
       THEN HRes(404, "Target admin not found", "none", "none", "rollback", st, {})
     ELSE IF ~hasUpdatePermission
       THEN HRes(403, "Access denied", "deny", "none", "rollback", st, {})
     ELSE IF promotionDenied(dto.role, currentAdmin.row)
       THEN HRes(403, "Access denied", "pass", "deny", "rollback", st, {})
     ELSE IF dto.password /\ fault = "hash"
       THEN HRes(500, "Failed to update admin account", "pass", "pass", "rollback", st, {})
     ELSE IF fault = "commit"
       THEN HRes(500, "Internal server error", "pass", "pass", "commitfailed", st, {})
     \* the update itself is not implemented: the row is reported unchanged
     ELSE HRes(200, "Admin account updated successfully", "pass", "pass", "commit",
               st, {targetAdminUUID.uuid})

\* admin.DeleteAdmin
DeleteAdmin(st, ctx, targetAdminID, fault) ==
  LET currentAdminUUID == StringToUUID(ctx.id)
      targetAdminUUID == StringToUUID(targetAdminID)
      currentAdmin == GetAdminById(st, currentAdminUUID.uuid, fault = "actor")
      targetAdmin == GetAdminById(st, targetAdminUUID.uuid, fault = "target")
      isSelfDelete == ctx.id = targetAdminID
      isSuper == isSuperAdmin(currentAdmin.row)
      hasDeletePermission ==
        \/ isSuper
        \/ (hasManageUsersPermission(currentAdmin.row) /\ targetAdmin.row.role # "SUPER_ADMIN")
  IN IF targetAdminID = EmptyString
       THEN HRes(400, "Missing admin ID", "none", "none", "none", st, {})
     ELSE IF ~ctx.has THEN HRes(401, "Authentication required", "none", "none", "none", st, {})
     ELSE IF fault = "begin" THEN HRes(500, "Internal server error", "none", "none", "none", st, {})
     ELSE IF ~currentAdminUUID.ok \/ ~targetAdminUUID.ok
       THEN HRes(400, "Invalid admin ID format", "none", "none", "rollback", st, {})
     ELSE IF currentAdmin.err # "nil"
       THEN HRes(401, "Authentication failed", "none", "none", "rollback", st, {})
     ELSE IF targetAdmin.err # "nil"
       THEN HRes(404, "Target admin not found", "none", "none", "rollback", st, {})
     ELSE IF isSelfDelete /\ isSuper
       THEN HRes(403, "Operation not allowed", "deny", "none", "rollback", st, {})
     ELSE IF ~hasDeletePermission
       THEN HRes(403, "Access denied", "deny", "none", "rollback", st, {})
     ELSE IF fault = "commit"
       THEN HRes(500, "Internal server error", "pass", "none", "commitfailed", st, {})
     \* the delete itself is not implemented: no row is removed
     ELSE HRes(200, "Admin account deleted successfully", "pass", "none", "commit",
               st, {targetAdminUUID.uuid})

\* admin.SendVerificationEmail, up to its response
SendVerificationEmail(st, ctx, targetAdminID, fault) ==
  LET currentAdminUUID == StringToUUID(ctx.id)
      targetAdminUUID == StringToUUID(targetAdminID)
      currentAdmin == GetAdminById(st, currentAdminUUID.uuid, fault = "actor")
      targetAdmin == GetAdminById(st, targetAdminUUID.uuid, fault = "target")
      isSelfAction == ctx.id = targetAdminID
      isSuper == isSuperAdmin(currentAdmin.row)
      hasSendPermission ==
        \/ isSelfAction
        \/ isSuper
        \/ (hasManageUsersPermission(currentAdmin.row) /\ targetAdmin.row.role # "SUPER_ADMIN")
  IN IF targetAdminID = EmptyString
       THEN HRes(400, "Missing admin ID", "none", "none", "none", st, {})
     ELSE IF ~ctx.has THEN HRes(401, "Authentication required", "none", "none", "none", st, {})
     ELSE IF fault = "begin" THEN HRes(500, "Internal server error", "none", "none", "none", st, {})
     ELSE IF ~currentAdminUUID.ok \/ ~targetAdminUUID.ok
       THEN HRes(400, "Invalid admin ID format", "none", "none", "rollback", st, {})
     ELSE IF currentAdmin.err # "nil"
       THEN HRes(401, "Authentication failed", "none", "none", "rollback", st, {})
     ELSE IF targetAdmin.err # "nil"
       THEN HRes(404, "Target admin not found", "none", "none", "rollback", st, {})
     ELSE IF ~hasSendPermission
       THEN HRes(403, "Access denied", "deny", "none", "rollback", st, {})
     ELSE IF fault = "commit"
       THEN HRes(500, "Internal server error", "pass", "none", "commitfailed", st, {})
     ELSE HRes(200, "Verification email queued for sending", "pass", "none", "commit",
               st, {targetAdminUUID.uuid})

\* admin.GetAdminByID: the transaction is begun before the context is read
GetAdminByID(st, ctx, targetAdminID, fault) ==
  LET currentAdminUUID == StringToUUID(ctx.id)
      targetAdminUUID == StringToUUID(targetAdminID)
      currentAdmin == GetAdminById(st, currentAdminUUID.uuid, fault = "actor")
      targetAdmin == GetAdminById(st, targetAdminUUID.uuid, fault = "target")
      hasPermission ==
        \/ ctx.id = targetAdminID
        \/ isSuperAdmin(currentAdmin.row)
        \/ hasManageUsersPermission(currentAdmin.row)
  IN IF targetAdminID = EmptyString
       THEN HRes(400, "Missing admin ID", "none", "none", "none", st, {})
     ELSE IF fault = "begin" THEN HRes(500, "Internal server error", "none", "none", "none", st, {})
     ELSE IF ~ctx.has THEN HRes(401, "Authentication required", "none", "none", "rollback", st, {})
     ELSE IF ~targetAdminUUID.ok \/ ~currentAdminUUID.ok
       THEN HRes(400, "Invalid admin ID format", "none", "none", "rollback", st, {})
     ELSE IF currentAdmin.err # "nil"
       THEN HRes(401, "Authentication failed", "none", "none", "rollback", st, {})
     ELSE IF targetAdmin.err # "nil"
       THEN HRes(404, "Admin not found", "none", "none", "rollback", st, {})
     ELSE IF ~hasPermission
       THEN HRes(403, "Access denied", "deny", "none", "rollback", st, {})
     ELSE IF fault = "commit"
       THEN HRes(500, "Internal server error", "pass", "none", "commitfailed", st, {})
     ELSE HRes(200, "Admin account retrieved successfully", "pass", "none", "commit",
               st, {targetAdminUUID.uuid})

\* admin.SearchAdminByQuery: exact match of the query on the email, then on
\* the username
SearchAdminByQuery(st, ctx, searchQuery, fault) ==
  LET adminUUID == StringToUUID(ctx.id)
      currentAdmin == GetAdminById(st, adminUUID.uuid, fault = "actor")
      hasPermission ==
        \/ isSuperAdmin(currentAdmin.row)
        \/ hasManageUsersPermission(currentAdmin.row)
      foundAdmins ==
        {u \in AdminUUIDs :
           st[u].exists /\ (st[u].email = searchQuery \/ st[u].username = searchQuery)}
  IN IF fault = "begin" THEN HRes(500, "Internal server error", "none", "none", "none", st, {})
     ELSE IF ~ctx.has THEN HRes(401, "Authentication required", "none", "none", "rollback", st, {})
     ELSE IF ~adminUUID.ok
       THEN HRes(400, "Invalid admin ID format", "none", "none", "rollback", st, {})
     ELSE IF currentAdmin.err # "nil"
       THEN HRes(401, "Authentication failed", "none", "none", "rollback", st, {})
     ELSE IF ~hasPermission
       THEN HRes(403, "Access denied", "deny", "none", "rollback", st, {})
     ELSE IF fault = "commit"
       THEN HRes(500, "Internal server error", "pass", "none", "commitfailed", st, {})
     ELSE HRes(200, "Search completed successfully", "pass", "none", "commit",
               st, foundAdmins)

(***************************************************************************)
(* Inputs                                                                  *)
(***************************************************************************)
Uid1 == StrUid(Canon(1))

\* the uid claims a token may carry
UidClaims ==
  {StrUid(Canon(u)) : u \in AdminUUIDs \cup UserUUIDs}
    \cup {StrUid(Upper(1)), StrUid(Word("zzz")), StrUid(EmptyString), NumUid, NoUid}

\* the tokens a client may send to a guard
GuardTokens ==
  {Sign(JWT_SECRET, FALSE, c) : c \in UidClaims}
    \cup {Sign(JWT_SECRET, TRUE, Uid1),
          Sign("OTHER_KEY", FALSE, Uid1),
          Jwt("HS256", JWT_SECRET, TRUE, FALSE, Uid1),
          Jwt("HS384", JWT_SECRET, FALSE, FALSE, Uid1),
          Jwt("none", "", FALSE, FALSE, Uid1),
          Jwt("RS256", "OTHER_KEY", FALSE, FALSE, Uid1),
          EmptyToken, GarbageToken}

Cookies == {NoCookie} \cup {Cookie(t) : t \in GuardTokens}
Headers == {NoHeader, Basic(Sign(JWT_SECRET, FALSE, Uid1))} \cup {Bearer(t) : t \in GuardTokens}
SmallCookies == {NoCookie, Cookie(EmptyToken), Cookie(Sign(JWT_SECRET, FALSE, Uid1))}
SmallHeaders == {NoHeader, Basic(Sign(JWT_SECRET, FALSE, Uid1)),
                 Bearer(Sign(JWT_SECRET, FALSE, Uid1))}

\* the credentials of a request: any value in one of the three places, one
\* of a few values in the other two
GuardCreds ==
  {c \in Cookies \X Cookies \X Headers :
     \/ c[1] \in SmallCookies /\ c[2] \in SmallCookies
     \/ c[1] \in SmallCookies /\ c[3] \in SmallHeaders
     \/ c[2] \in SmallCookies /\ c[3] \in SmallHeaders}

\* paths served behind AuthMiddleware.Guard, and near misses of the public ones
AuthPaths ==
  {<<"", "auth", "login">>, <<"", "auth", "register">>,
   <<"", "api", "v1", "auth", "login">>, <<"", "api", "v1", "auth", "register">>,
   <<"", "api", "v1", "events", "all">>, <<"", "">>,
   <<"", "x", "auth", "login">>, <<"", "auth", "login", "">>}

\* paths served behind AdminMiddleware.Guard, and near misses of the login path
AdminPaths ==
  {<<"", "admin", "login">>, <<"", "api", "v1", "admin", "login">>,
   <<"", "api", "v1", "admin", "create">>, <<"", "api", "v1", "admin", "<uuid>">>,
   <<"", "api", "v1", "admin", "u", "login">>, <<"", "api", "v1", "admin", "send-verification", "login">>}

\* NewAuthMiddleware, NewAdminMiddleware: any repo, conn and redirect
GuardInstances == [Repo : BOOLEAN, Conn : BOOLEAN, Redirect : BOOLEAN]
\* AdminHandler.RegisterRoutes: NewAdminMiddleware(h.Repo, h.Conn, false) of
\* a handler whose database connection was established
AdminRouteGuard == [Repo |-> TRUE, Conn |-> TRUE, Redirect |-> FALSE]

ApiPrefix == <<"", "api", "v1">>
\* the path segment an id is sent as
Seg(s) == IF s.form \in {"canon", "upper"} THEN "<uuid>" ELSE s.form

\* the tokens sent to the admin routes: one issued for each possible admin
\* id and for a user id, and an expired one
RouteTokens ==
  {Sign(JWT_SECRET, FALSE, StrUid(Canon(u))) : u \in AdminUUIDs \cup UserUUIDs}
    \cup {Sign(JWT_SECRET, TRUE, Uid1)}

\* as the jwt cookie the login sets, as a bearer header, or not at all
RouteCreds ==
  {<<NoCookie, Cookie(t), NoHeader>> : t \in RouteTokens}
    \cup {<<NoCookie, NoCookie, Bearer(Sign(JWT_SECRET, FALSE, Uid1))>>,
          <<NoCookie, NoCookie, NoHeader>>}

\* the {id} of a route: either spelling of an id, or a word
Targets ==
  {Canon(u) : u \in AdminUUIDs} \cup {Upper(u) : u \in AdminUUIDs}
    \cup {Word("login"), Word("zzz")}

NoCreateDTO ==
  [parses |-> TRUE, fieldsOK |-> TRUE, role |-> "", perms |-> {}, username |-> 0, email |-> 0]
CreateDTO(role, perms, name) ==
  [parses |-> TRUE, fieldsOK |-> TRUE, role |-> role, perms |-> perms,
   username |-> name, email |-> name]

\* bodies of POST /create: every valid role with either permission, under a
\* name that is taken or the next free one, and the invalid bodies
CreateDTOs(st) ==
  LET n == Cardinality({u \in AdminUUIDs : st[u].exists})
  IN {CreateDTO(role, {p}, name) :
         role \in validRoles, p \in validPermissions, name \in 1..(n + 1)}
       \cup {CreateDTO("OWNER", {ADMIN_PERMISSION_MANAGE_USERS}, n + 1),
             CreateDTO(ADMIN_ROLE_ADMIN, {}, n + 1),
             CreateDTO(ADMIN_ROLE_ADMIN, {"BOGUS"}, n + 1),
             [CreateDTO(ADMIN_ROLE_ADMIN, {ADMIN_PERMISSION_MANAGE_USERS}, n + 1)
                EXCEPT !.fieldsOK = FALSE],
             [CreateDTO(ADMIN_ROLE_ADMIN, {ADMIN_PERMISSION_MANAGE_USERS}, n + 1)
                EXCEPT !.parses = FALSE]}

NoUpdateDTO == [parses |-> TRUE, role |-> "nil", password |-> FALSE]
\* bodies of PUT /{id}
UpdateDTOs ==
  {[parses |-> TRUE, role |-> r, password |-> FALSE] :
      r \in {"nil", "", ADMIN_ROLE_SUPERADMIN, ADMIN_ROLE_EDITOR, "OWNER"}}
    \cup {[parses |-> TRUE, role |-> "nil", password |-> TRUE],
          [parses |-> FALSE, role |-> "nil", password |-> FALSE]}

Faults == {"guard", "begin", "actor", "target", "hash", "insert", "commit"}

(***************************************************************************)
(* State                                                                   *)
(***************************************************************************)
Request(route, path, inst, creds, target, cdto, udto, query, fault) ==
  [route |-> route, path |-> path, inst |-> inst,
   admin_jwt |-> creds[1], jwt |-> creds[2], auth |-> creds[3],
   target |-> target, cdto |-> cdto, udto |-> udto, query |-> query, fault |-> fault]

NoRequest ==
  Request("none", <<"">>, AdminRouteGuard, <<NoCookie, NoCookie, NoHeader>>,
          EmptyString, NoCreateDTO, NoUpdateDTO, 0, "none")

\* the outcome of a request: what the guard did (g) and what the handler it
\* called did (h)
Outcome(g, h) ==
  [g |-> g,
   h |-> [ran |-> h.ran, status |-> h.status, msg |-> h.msg, perm |-> h.perm,
          promo |-> h.promo, tx |-> h.tx, found |-> h.found]]

NoOutcome == Outcome(GuardNext(EmptyToken, "no", "none", NoCtx), NotRun(<<>>))

\* the one *pgx.Conn every handler and guard is built with: whether a
\* transaction is open on it, and the table as seen inside that transaction
IdleConn == [tx |-> FALSE, view |-> CreateSuperUserIfNotExists]

\* a request slot of the HTTP server with no request in it; a request in
\* flight keeps its context value, what its handler decided to do with its
\* transaction, the row it inserted and the status it answers
IdleRequest ==
  [pc |-> "idle", r |-> NoRequest, ctx |-> NoCtx, tx |-> "none", made |-> NoRow,
   status |-> 0]

\* the requests net/http serves at the same time, each on its own goroutine
Threads == {1, 2}

\* the email goroutines: the jobs still running, and what the goroutine that
\* ended last did: its job, the result of SendEmail ("" when it ended before
\* sending) and the error line it wrote to logs/app.log ("" when none)
NoMail ==
  [running |-> <<>>,
   done |-> [job |-> [to |-> 0, route |-> "none", wr |-> FALSE], res |-> "", line |-> ""]]

Init ==
  /\ store = CreateSuperUserIfNotExists
  /\ users = UserUUIDs
  /\ pc = "idle"
  /\ req = NoRequest
  /\ resp = NoOutcome
  /\ conn = IdleConn
  /\ inflight = [t \in Threads |-> IdleRequest]
  /\ mail = NoMail

RouteGuard_RowsAtIssue(r) ==
  AdminGuard(r.inst, r, CreateSuperUserIfNotExists, r.fault = "guard")

\* protectedRouter.Use(adminMiddleware.Guard): the guard in front of a route
RouteGuard(r) == AdminGuard(r.inst, r, store, r.fault = "guard")

\* one request through the admin guard g and, when the guard calls next,
\* the handler of its route, whose result is h
Serve(r, g, h) ==
  LET res == IF g.next THEN h ELSE NotRun(store)
  IN /\ pc = "idle"
     /\ pc' = "done"
     /\ req' = r
     /\ resp' = Outcome(g, res)
     /\ store' = res.store
     /\ UNCHANGED <<users, conn, inflight, mail>>

\* POST {prefix}/admin/create
ServeCreateAdmin ==
  /\ pc = "idle"
  /\ \E creds \in RouteCreds, dto \in CreateDTOs(store), fault \in {"none"} \cup Faults :
    LET r == Request("CreateAdmin", ApiPrefix \o <<"admin", "create">>, AdminRouteGuard,
                     creds, EmptyString, dto, NoUpdateDTO, 0, fault)
        g == RouteGuard(r)
        h == CreateAdmin(store, g.ctx, dto, fault)
    IN /\ fault # "target"
       /\ Serve(r, g, h)
       \* the table holds at most MaxAdmins rows
       /\ resp'.h.status = 201 => ~TableFull(store)

\* PUT {prefix}/admin/{id}
ServeUpdateAdmin ==
  /\ pc = "idle"
  /\ \E creds \in RouteCreds, target \in Targets, dto \in UpdateDTOs,
     fault \in {"none"} \cup Faults :
    LET r == Request("UpdateAdmin", ApiPrefix \o <<"admin", Seg(target)>>, AdminRouteGuard,
                     creds, target, NoCreateDTO, dto, 0, fault)
        g == RouteGuard(r)
        h == UpdateAdmin(store, g.ctx, target, dto, fault)
    IN /\ fault # "insert"
       /\ Serve(r, g, h)

\* DELETE {prefix}/admin/{id}
ServeDeleteAdmin ==
  /\ pc = "idle"
  /\ \E creds \in RouteCreds, target \in Targets, fault \in {"none"} \cup Faults :
    LET r == Request("DeleteAdmin", ApiPrefix \o <<"admin", Seg(target)>>, AdminRouteGuard,
                     creds, target, NoCreateDTO, NoUpdateDTO, 0, fault)
        g == RouteGuard(r)
        h == DeleteAdmin(store, g.ctx, target, fault)
    IN /\ fault \notin {"insert", "hash"}
       /\ Serve(r, g, h)

\* POST {prefix}/admin/send-verification/{id}
ServeSendVerificationEmail ==
  /\ pc = "idle"
  /\ \E creds \in RouteCreds, target \in Targets, fault \in {"none"} \cup Faults :
    LET r == Request("SendVerificationEmail",
                     ApiPrefix \o <<"admin", "send-verification", Seg(target)>>,
                     AdminRouteGuard, creds, target, NoCreateDTO, NoUpdateDTO, 0, fault)
        g == RouteGuard(r)
        h == SendVerificationEmail(store, g.ctx, target, fault)
    IN /\ fault \notin {"insert", "hash"}
       /\ Serve(r, g, h)

\* GET {prefix}/admin/{id}
ServeGetAdminByID ==
  /\ pc = "idle"
  /\ \E creds \in RouteCreds, target \in Targets, fault \in {"none"} \cup Faults :
    LET r == Request("GetAdminByID", ApiPrefix \o <<"admin", Seg(target)>>, AdminRouteGuard,
                     creds, target, NoCreateDTO, NoUpdateDTO, 0, fault)
        g == RouteGuard(r)
        h == GetAdminByID(store, g.ctx, target, fault)
    IN /\ fault \notin {"insert", "hash"}
       /\ Serve(r, g, h)

\* AdminHandler.SearchAdminByQeury behind the guard, on GET {prefix}/admin/{query}
ServeSearchAdminByQuery ==
  /\ pc = "idle"
  /\ \E creds \in RouteCreds, query \in 1..MaxAdmins, fault \in {"none"} \cup Faults :
    LET r == Request("SearchAdminByQuery", ApiPrefix \o <<"admin", "<query>">>, AdminRouteGuard,
                     creds, EmptyString, NoCreateDTO, NoUpdateDTO, query, fault)
        g == RouteGuard(r)
        h == SearchAdminByQuery(store, g.ctx, query, fault)
    IN /\ fault \notin {"insert", "hash", "target"}
       /\ Serve(r, g, h)

\* admin.GetAdminByUserName: the row with this username, with no look at
\* who asks
GetAdminByUserName(st, targetUsername, fault) ==
  LET rows == {u \in AdminUUIDs : st[u].exists /\ st[u].username = targetUsername}
  IN IF fault = "begin" THEN HRes(500, "Internal server error", "none", "none", "none", st, {})
     ELSE IF fault = "target" \/ rows = {}
       THEN HRes(404, "Admin not found", "none", "none", "rollback", st, {})
     ELSE IF fault = "commit"
       THEN HRes(500, "Internal server error", "none", "none", "commitfailed", st, {})
     ELSE HRes(200, "Admin account retrieved successfully", "none", "none", "commit",
               st, rows)

\* GET {prefix}/admin/u/{username}
ServeGetAdminByUserName ==
  /\ pc = "idle"
  /\ \E creds \in RouteCreds, name \in 1..MaxAdmins,
        fault \in {"none", "guard", "begin", "target", "commit"} :
    LET r == Request("GetAdminByUserName", ApiPrefix \o <<"admin", "u", "<username>">>,
                     AdminRouteGuard, creds, EmptyString, NoCreateDTO, NoUpdateDTO, name, fault)
        g == RouteGuard(r)
        h == GetAdminByUserName(store, name, fault)
    IN Serve(r, g, h)

\* admin.GetAllAdmins: every row of super_users, whoever asks
GetAllAdmins(st, fault) ==
  IF fault = "target"
    THEN HRes(500, "Internal server error", "none", "none", "none", st, {})
  ELSE HRes(200, "Admin accounts retrieved successfully", "none", "none", "none", st,
            {u \in AdminUUIDs : st[u].exists})

\* a route registered on the admin router itself, before
\* protectedRouter.Use(adminMiddleware.Guard): no guard runs
NoGuard ==
  [next |-> FALSE, writes |-> 0, status |-> 0, msg |-> "", location |-> "",
   panicked |-> FALSE, token |-> EmptyToken, verified |-> "no",
   lookup |-> "unguarded", ctx |-> NoCtx]

\* GET {prefix}/admin/all
ServeGetAllAdmins ==
  /\ pc = "idle"
  /\ \E creds \in RouteCreds, fault \in {"none", "target"} :
    LET r == Request("GetAllAdmins", ApiPrefix \o <<"admin", "all">>, AdminRouteGuard,
                     creds, EmptyString, NoCreateDTO, NoUpdateDTO, 0, fault)
        h == GetAllAdmins(store, fault)
    IN /\ pc' = "done"
       /\ req' = r
       /\ resp' = Outcome(NoGuard, h)
       /\ UNCHANGED <<store, users, conn, inflight, mail>>

\* the response has been delivered; the server takes the next request
Respond ==
  /\ pc = "done"
  /\ pc' = "idle"
  /\ req' = NoRequest
  /\ resp' = NoOutcome
  /\ UNCHANGED <<store, users, conn, inflight, mail>>

Next ==
  \/ ServeCreateAdmin
  \/ ServeUpdateAdmin
  \/ ServeDeleteAdmin
  \/ ServeSendVerificationEmail
  \/ ServeGetAdminByID
  \/ ServeSearchAdminByQuery
  \/ ServeGetAdminByUserName
  \/ ServeGetAllAdmins
  \/ Respond

Spec == Init /\ [][Next]_vars

(***************************************************************************)
(* The guards alone: any credentials, any guard instance, and a next       *)
(* handler that is only recorded as called.                                *)
(***************************************************************************)
\* AuthMiddleware.Guard wrapped around a handler
ServeAuthGuard ==
  /\ pc = "idle"
  /\ \E creds \in GuardCreds, path \in AuthPaths, redirect \in BOOLEAN :
    LET am == [Repo |-> FALSE, Conn |-> FALSE, Redirect |-> redirect]
        r == Request("AuthGuard", path, am, creds, EmptyString,
                     NoCreateDTO, NoUpdateDTO, 0, "none")
    IN /\ pc = "idle"
       /\ pc' = "done"
       /\ req' = r
       /\ resp' = Outcome(AuthGuard(am, r), NotRun(store))
       /\ UNCHANGED <<store, users, conn, inflight, mail>>

\* why am.Repo.GetAdminById(ctx, s_uid) returns an error other than
\* pgx.ErrNoRows: the database fails ("guard"), or the request context is
\* cancelled or past its deadline while the query is waiting ("cancel")
LookupFaults == {"guard", "cancel"}

\* AdminMiddleware.Guard wrapped around a handler
ServeAdminGuard ==
  /\ pc = "idle"
  /\ \E creds \in GuardCreds, path \in AdminPaths, am \in GuardInstances,
     fault \in {"none"} \cup LookupFaults :
    LET r == Request("AdminGuard", path, am, creds, EmptyString,
                     NoCreateDTO, NoUpdateDTO, 0, fault)
    IN /\ pc = "idle"
       /\ pc' = "done"
       /\ req' = r
       /\ resp' = Outcome(AdminGuard(am, r, store, fault \in LookupFaults), NotRun(store))
       /\ UNCHANGED <<store, users, conn, inflight, mail>>

NextGuard ==
  \/ ServeAuthGuard
  \/ ServeAdminGuard
  \/ Respond

SpecGuard == Init /\ [][NextGuard]_vars

(***************************************************************************)
(* The admin routes while the super_users table changes under them.  No    *)
(* handler of the program updates or deletes a row (the queries have no    *)
(* UPDATE or DELETE), but the table lives in PostgreSQL: rows are added    *)
(* by CreateSuperUserIfNotExists at the next start, and changed or deleted *)
(* (events.admin_id is ON DELETE CASCADE) by whoever administers the       *)
(* database.                                                               *)
(***************************************************************************)
\* what a row can be changed to: removed, or given one of these roles and
\* permission sets
ChangedRows(u) ==
  {NoRow,
   Row(ADMIN_ROLE_SUPERADMIN, validPermissions, u, u),
   Row(ADMIN_ROLE_ADMIN, {ADMIN_PERMISSION_MANAGE_USERS}, u, u),
   Row(ADMIN_ROLE_ADMIN, {ADMIN_PERMISSION_VIEW_REPORTS}, u, u)}

\* a write to super_users between two requests
StoreChanged ==
  /\ pc = "idle"
  /\ \E u \in AdminUUIDs : \E row \in ChangedRows(u) :
       /\ store[u] # row
       /\ store' = [store EXCEPT ![u] = row]
  /\ UNCHANGED <<users, pc, req, resp, conn, inflight, mail>>

NextStore ==
  \/ StoreChanged
  \/ ServeUpdateAdmin
  \/ ServeDeleteAdmin
  \/ Respond

SpecStore == Init /\ [][NextStore]_vars

(***************************************************************************)
(* The verification mails.  CreateUser and SendVerificationEmail start a   *)
(* goroutine that builds and sends the mail and go on to write their       *)
(* response; nothing waits for the goroutine.                              *)
(***************************************************************************)
\* goroutines kept running at the same time
MaxEmails == 2

\* the *utils.HttpWriter of a request and what was written through it
Writer(written, status, msg) ==
  [nil |-> FALSE, written |-> written, status |-> status, msg |-> msg]
NilWriter == [nil |-> TRUE, written |-> FALSE, status |-> 0, msg |-> ""]

SendEmail_ReportsFailure(wr, delivered) ==
  [res |-> IF delivered THEN "MailerSuccess" ELSE "MailerFailure",
   err |-> IF delivered THEN "nil" ELSE "DialAndSend",
   wr |-> IF delivered \/ wr.nil THEN wr
          ELSE Writer(TRUE, 500, "Error sending verification email")]

\* MailService.SendEmail(wr): dialer.DialAndSend delivers the message or
\* fails; wr is not used
SendEmail(wr, delivered) ==
  [res |-> IF delivered THEN "MailerSuccess" ELSE "MailerFailure",
   err |-> IF delivered THEN "nil" ELSE "DialAndSend",
   wr |-> wr]

\* bodies of POST /auth/register: an address that is registered, two that
\* are not, and the bodies that do not parse or validate
CreateUserDTO(email) == [parses |-> TRUE, valid |-> TRUE, email |-> email]
CreateUserDTOs ==
  {CreateUserDTO(e) : e \in {100, 101, 102}}
    \cup {[CreateUserDTO(101) EXCEPT !.parses = FALSE],
          [CreateUserDTO(101) EXCEPT !.valid = FALSE]}
CreateUserFaults == {"begin", "lookup", "hash", "insert", "commit"}

\* user.CreateUser up to the go statement: the response it is going to
\* write, the users table it leaves, and whether it starts the goroutine
CreateUser(us, dto, fault) ==
  LET R(status, msg, table, spawn, tx) ==
        [status |-> status, msg |-> msg, users |-> table, spawn |-> spawn, tx |-> tx]
  IN IF ~dto.parses THEN R(400, "Error parsing body", us, FALSE, "none")
     ELSE IF ~dto.valid THEN R(400, "Invalid user data provided", us, FALSE, "none")
     ELSE IF fault = "begin" THEN R(500, "Failed to begin transaction", us, FALSE, "none")
     ELSE IF fault = "lookup"
       THEN R(400, "Failed to check if user already exists", us, FALSE, "rollback")
     ELSE IF dto.email \in us
       THEN R(409, "User with this email already exists", us, FALSE, "rollback")
     \* a failed HashPassword rolls back and goes on: the insert then fails
     \* on the closed transaction
     ELSE IF fault \in {"hash", "insert"}
       THEN R(500, "Failed to create user", us, FALSE, "rollback")
     \* the error of tx.Commit is dropped
     ELSE IF fault = "commit"
       THEN R(201, "User registration endpoint reached successfully", us, TRUE,
              "commitfailed")
     ELSE R(201, "User registration endpoint reached successfully",
            us \cup {dto.email}, TRUE, "commit")

\* a started email goroutine: the address, the handler that started it, and
\* whether it hands the request's writer to SendEmail (CreateUser) or nil
Job(to, route) == [to |-> to, route |-> route, wr |-> route = "CreateUser"]

\* a request of this part and the response its handler is about to write
MailRequest(route, r, fault, status, msg, tx) ==
  [route |-> route, r |-> r, fault |-> fault, status |-> status, msg |-> msg, tx |-> tx]

\* what go func() leaves behind for the handler: with a goroutine started
\* the handler still has its response to write, otherwise it has written it
Started(r, spawn, job) ==
  /\ req' = r
  /\ IF spawn
       THEN /\ pc' = "queued"
            /\ resp' = Writer(FALSE, 0, "")
            /\ mail' = [mail EXCEPT !.running = Append(@, job)]
       ELSE /\ pc' = "done"
            /\ resp' = Writer(TRUE, r.status, r.msg)
            /\ mail' = mail

\* POST /auth/register
HandleCreateUser ==
  /\ pc = "idle"
  /\ Len(mail.running) < MaxEmails
  /\ \E dto \in CreateUserDTOs, fault \in {"none"} \cup CreateUserFaults :
       LET h == CreateUser(users, dto, fault)
       IN /\ users' = h.users
          /\ Started(MailRequest("CreateUser", dto, fault, h.status, h.msg, h.tx),
                     h.spawn, Job(dto.email, "CreateUser"))
  /\ UNCHANGED <<store, conn, inflight>>

\* POST {prefix}/admin/send-verification/{id} behind the guard
HandleSendVerificationEmail ==
  /\ pc = "idle"
  /\ Len(mail.running) < MaxEmails
  /\ \E creds \in RouteCreds, target \in Targets, fault \in {"none", "target", "commit"} :
       LET r == Request("SendVerificationEmail",
                        ApiPrefix \o <<"admin", "send-verification", Seg(target)>>,
                        AdminRouteGuard, creds, target, NoCreateDTO, NoUpdateDTO, 0, fault)
           g == RouteGuard(r)
           h == SendVerificationEmail(store, g.ctx, target, fault)
           to == IF h.found = {} THEN 0 ELSE store[CHOOSE u \in h.found : TRUE].email
       IN IF g.next
            THEN Started(MailRequest("SendVerificationEmail", r, fault, h.status, h.msg, h.tx),
                         h.status = 200, Job(to, "SendVerificationEmail"))
            ELSE Started(MailRequest("SendVerificationEmail", r, fault, g.status, g.msg, "none"),
                         FALSE, Job(0, "SendVerificationEmail"))
  /\ UNCHANGED <<store, users, conn, inflight>>

\* the handler writes its response after the go statement
WriteResponse ==
  /\ pc = "queued"
  /\ pc' = "done"
  /\ resp' = Writer(TRUE, req.status, req.msg)
  /\ UNCHANGED <<store, users, req, conn, inflight, mail>>

\* where an email goroutine ends: at the template, at SMTP_PORT, or at the
\* send, which fails or delivers
GoroutineEnds == {"template", "port", "sendfails", "delivered"}

\* the error line a goroutine of the handler route writes when it ends early
ErrorLine(route, ends) ==
  IF ends = "template"
    THEN IF route = "CreateUser" THEN "Error parsing the mail template"
         ELSE "Error loading email template"
  ELSE IF ends = "port" THEN "Error parsing SMTP server PORT"
  ELSE IF ends = "sendfails" THEN "Error sending verification email"
  ELSE ""

\* one email goroutine runs to its end, at any time after it was started
EmailGoroutine ==
  /\ \E i \in 1..Len(mail.running), ends \in GoroutineEnds :
       LET job == mail.running[i]
           \* the writer the goroutine captured is the one of the request
           \* that started it; afterwards nothing it writes arrives
           wr == IF /\ job.wr /\ pc # "idle" /\ req.route = "CreateUser"
                    /\ req.r.email = job.to
                   THEN resp ELSE NilWriter
           sends == ends \in {"sendfails", "delivered"}
           sent == SendEmail(wr, ends = "delivered")
           rest == [k \in 1..(Len(mail.running) - 1) |->
                      IF k < i THEN mail.running[k] ELSE mail.running[k + 1]]
       IN /\ mail' = [running |-> rest,
                      done |-> [job |-> job,
                                res |-> IF sends THEN sent.res ELSE "",
                                line |-> ErrorLine(job.route, ends)]]
          /\ resp' = IF sends /\ ~wr.nil THEN sent.wr ELSE resp
  /\ UNCHANGED <<store, users, pc, req, conn, inflight>>

NextMail ==
  \/ HandleCreateUser
  \/ HandleSendVerificationEmail
  \/ WriteResponse
  \/ EmailGoroutine
  \/ Respond

SpecMail == Init /\ [][NextMail]_vars

(***************************************************************************)
(* Requests served at the same time.  net/http runs every request on its   *)
(* own goroutine; the guard and the handlers of AdminHandler all work on   *)
(* the one *pgx.Conn NewAdminHandler opened.  A statement of one request   *)
(* runs between two statements of another: BEGIN inside an open            *)
(* transaction only draws a warning, and so do COMMIT and ROLLBACK outside *)
(* one (tx.Commit and tx.Rollback return nil).                             *)
(***************************************************************************)
\* the table as a statement on the connection sees it
Visible == IF conn.tx THEN conn.view ELSE store

\* the requests sent at the same time: the bootstrap admin creates two
\* admins and deletes itself (refused) or admin 2, and a request without a
\* token
ConnRequests ==
  LET creds == <<NoCookie, Cookie(Sign(JWT_SECRET, FALSE, Uid1)), NoHeader>>
      create(dto) == Request("CreateAdmin", ApiPrefix \o <<"admin", "create">>,
                             AdminRouteGuard, creds, EmptyString, dto, NoUpdateDTO, 0, "none")
      delete(target) == Request("DeleteAdmin", ApiPrefix \o <<"admin", Seg(target)>>,
                                AdminRouteGuard, creds, target, NoCreateDTO, NoUpdateDTO,
                                0, "none")
  IN {create(CreateDTO(ADMIN_ROLE_ADMIN, {ADMIN_PERMISSION_MANAGE_USERS}, 2)),
      create(CreateDTO(ADMIN_ROLE_EDITOR, {ADMIN_PERMISSION_VIEW_REPORTS}, 3)),
      delete(Canon(1)), delete(Canon(2)),
      [delete(Canon(2)) EXCEPT !.jwt = NoCookie]}

\* the handler of a request's route on the table st
HandlerOf(r, ctx, st) ==
  IF r.route = "CreateAdmin" THEN CreateAdmin(st, ctx, r.cdto, "none")
  ELSE DeleteAdmin(st, ctx, r.target, "none")

\* a request arrives: the guard looks the admin up on the connection, the
\* handler checks its input and calls conn.Begin
ConnBegin(t) ==
  /\ inflight[t].pc = "idle"
  /\ \E r \in ConnRequests :
       LET g == AdminGuard(r.inst, r, Visible, FALSE)
           h == HandlerOf(r, g.ctx, Visible)
       IN IF ~g.next
            THEN /\ inflight' = [inflight EXCEPT ![t] =
                      [IdleRequest EXCEPT !.pc = "done", !.r = r, !.status = g.status]]
                 /\ conn' = conn
          ELSE IF h.tx = "none"
            THEN /\ inflight' = [inflight EXCEPT ![t] =
                      [IdleRequest EXCEPT !.pc = "done", !.r = r, !.ctx = g.ctx,
                                          !.status = h.status]]
                 /\ conn' = conn
          ELSE /\ inflight' = [inflight EXCEPT ![t] =
                      [IdleRequest EXCEPT !.pc = "begun", !.r = r, !.ctx = g.ctx]]
               /\ conn' = IF conn.tx THEN conn ELSE [tx |-> TRUE, view |-> store]
  /\ UNCHANGED <<store, users, pc, req, resp, mail>>

\* the handler's statements through repo.WithTx(tx), up to its decision to
\* commit or to roll back: inside the open transaction when there is one,
\* and on their own when another request has ended it
ConnQueries(t) ==
  /\ inflight[t].pc = "begun"
  /\ LET r == inflight[t].r
         h == HandlerOf(r, inflight[t].ctx, Visible)
         made == IF h.status = 201 THEN h.store[NewUUID(Visible)] ELSE NoRow
     IN /\ h.status = 201 => ~TableFull(Visible)
        /\ inflight' = [inflight EXCEPT ![t].pc = "decided", ![t].tx = h.tx,
                                        ![t].made = made, ![t].status = h.status]
        /\ IF conn.tx
             THEN conn' = [conn EXCEPT !.view = h.store] /\ store' = store
             ELSE conn' = conn /\ store' = h.store
  /\ UNCHANGED <<users, pc, req, resp, mail>>

\* tx.Commit or tx.Rollback, then the response
ConnEnd(t) ==
  /\ inflight[t].pc = "decided"
  /\ inflight' = [inflight EXCEPT ![t].pc = "done"]
  /\ IF conn.tx
       THEN /\ conn' = [conn EXCEPT !.tx = FALSE]
            /\ store' = IF inflight[t].tx = "commit" THEN conn.view ELSE store
       ELSE conn' = conn /\ store' = store
  /\ UNCHANGED <<users, pc, req, resp, mail>>

\* the response has been delivered and the slot is free again
ConnRespond(t) ==
  /\ inflight[t].pc = "done"
  /\ inflight' = [inflight EXCEPT ![t] = IdleRequest]
  /\ UNCHANGED <<store, users, pc, req, resp, conn, mail>>

NextConn ==
  \E t \in Threads :
    \/ ConnBegin(t)
    \/ ConnQueries(t)
    \/ ConnEnd(t)
    \/ ConnRespond(t)

SpecConn == Init /\ [][NextConn]_vars

(***************************************************************************)
(* The TokenSigner alone: a token is signed by one signer and verified by  *)
(* another, as issued or after it was altered on the way.                  *)
(***************************************************************************)
\* NewTokenSigner(key): the configured key, another key, the empty key
SignerKeys == {JWT_SECRET, "OTHER_KEY", ""}

\* the uid claims given to Sign
SignClaims == UidClaims \cup {IntUid}

\* what may happen to a token between Sign and Verify
Alterations == {"tamper", "none", "RS256", "HS384", "garbage", "empty"}

\* the token that arrives instead: the same with a changed signature, one
\* that declares another algorithm (key still names the key its signature
\* was made with), text that is no JWT, nothing
Alter(t, how) ==
  CASE how = "tamper" -> [t EXCEPT !.tampered = TRUE]
    [] how = "none" -> [t EXCEPT !.alg = "none"]
    [] how = "RS256" -> [t EXCEPT !.alg = "RS256"]
    [] how = "HS384" -> [t EXCEPT !.alg = "HS384"]
    [] how = "garbage" -> GarbageToken
    [] OTHER -> EmptyToken

SignerRequest(route, signKey, verifyKey, expired, uid, how, token) ==
  [route |-> route, signKey |-> signKey, verifyKey |-> verifyKey,
   expired |-> expired, uid |-> uid, how |-> how, token |-> token]

\* signer.Sign(claims) followed by signer.Verify(token)
SignVerify ==
  /\ pc = "idle"
  /\ \E signKey \in SignerKeys, verifyKey \in SignerKeys, expired \in BOOLEAN,
        uid \in SignClaims :
       LET token == Sign(signKey, expired, uid)
       IN /\ pc' = "done"
          /\ req' = SignerRequest("SignVerify", signKey, verifyKey, expired, uid,
                                  "asis", token)
          /\ resp' = Verify(verifyKey, token)
          /\ UNCHANGED <<store, users, conn, inflight, mail>>

\* signer.Verify of a token that was altered after Sign
VerifyAltered ==
  /\ pc = "idle"
  /\ \E signKey \in SignerKeys, verifyKey \in SignerKeys, expired \in BOOLEAN,
        uid \in SignClaims, how \in Alterations :
       LET token == Alter(Sign(signKey, expired, uid), how)
       IN /\ pc' = "done"
          /\ req' = SignerRequest("VerifyAltered", signKey, verifyKey, expired, uid,
                                  how, token)
          /\ resp' = Verify(verifyKey, token)
          /\ UNCHANGED <<store, users, conn, inflight, mail>>

NextSigner ==
  \/ SignVerify
  \/ VerifyAltered
  \/ Respond

SpecSigner == Init /\ [][NextSigner]_vars

(***************************************************************************)
(* The signing key of each issuance path and of the guards, read from the  *)
(* environment of the process when a request is served.                    *)
(***************************************************************************)
\* JWT_SECRET in the environment: not set, set to the empty string, set
EnvUnset == [set |-> FALSE, value |-> ""]
EnvSet(v) == [set |-> TRUE, value |-> v]
Envs == {EnvUnset, EnvSet(""), EnvSet("s3cret")}

\* utils.GetEnv(key, d_val): os.LookupEnv, the default when the variable
\* does not exist
GetEnv(env, d_val) == IF env.set THEN env.value ELSE d_val

\* os.Getenv(key): the empty string when the variable does not exist
Getenv(env) == IF env.set THEN env.value ELSE ""

\* the key of LoginUser and of the admin Login
LoginKey(env) == GetEnv(env, "SUPER_SECRET_KEY")

\* the key of AuthMiddleware.Guard and of AdminMiddleware.Guard
GuardKey(env) == GetEnv(env, "SUPER_SECRET_KEY")

\* the key of RefreshUserToken, with its own fallback
RefreshKey(env) ==
  IF Getenv(env) = "" THEN "jakdjf87a8((*8___jhadja#kjaaaoitrak" ELSE Getenv(env)

\* the token a successful LoginUser or admin Login signs for the account
LoginToken(env, id) == Sign(LoginKey(env), FALSE, StrUid(id))

\* user.RefreshUserToken: the status it answers and the token it issues
RefreshUserToken(env, cookie) ==
  LET v == Verify(RefreshKey(env), cookie.tok)
  IN IF ~cookie.present \/ cookie.tok.kind = "empty"
       THEN [status |-> 400, token |-> EmptyToken]
     ELSE IF ~v.ok THEN [status |-> 401, token |-> EmptyToken]
     ELSE IF ~v.claims.isString \/ v.claims.s = EmptyString
       THEN [status |-> 401, token |-> EmptyToken]
     ELSE [status |-> 200, token |-> Sign(RefreshKey(env), FALSE, StrUid(v.claims.s))]

\* the jwt cookies sent to the refresh endpoint: a token of a login under
\* either environment, one signed with the refresh fallback, others
RefreshCookies ==
  {NoCookie, Cookie(EmptyToken), Cookie(GarbageToken),
   Cookie(Sign("SUPER_SECRET_KEY", TRUE, Uid1)),
   Cookie(Sign("SUPER_SECRET_KEY", FALSE, NumUid))}
    \cup {Cookie(Sign(k, FALSE, StrUid(Canon(u)))) :
            k \in {LoginKey(e) : e \in Envs} \cup {RefreshKey(e) : e \in Envs},
            u \in AdminUUIDs \cup UserUUIDs}

KeyRequest(route, env, issuer, guard, cookie, status, token) ==
  [route |-> route, env |-> env, issuer |-> issuer, guard |-> guard,
   cookie |-> cookie, status |-> status, token |-> token,
   issuerKey |-> IF issuer = "RefreshUserToken" THEN RefreshKey(env) ELSE LoginKey(env),
   guardKey |-> GuardKey(env)]

\* a login issues a token and a guard verifies it
LoginThenGuard ==
  /\ pc = "idle"
  /\ \E env \in Envs, issuer \in {"LoginUser", "Login"},
        guard \in {"AuthGuard", "AdminGuard"}, u \in AdminUUIDs \cup UserUUIDs :
       LET token == LoginToken(env, Canon(u))
       IN /\ pc' = "done"
          /\ req' = KeyRequest("LoginThenGuard", env, issuer, guard, NoCookie, 200, token)
          /\ resp' = Verify(GuardKey(env), token)
          /\ UNCHANGED <<store, users, conn, inflight, mail>>

\* the refresh endpoint answers a cookie and a guard verifies what it issued
RefreshThenGuard ==
  /\ pc = "idle"
  /\ \E env \in Envs, cookie \in RefreshCookies, guard \in {"AuthGuard", "AdminGuard"} :
       LET r == RefreshUserToken(env, cookie)
       IN /\ pc' = "done"
          /\ req' = KeyRequest("RefreshThenGuard", env, "RefreshUserToken", guard,
                               cookie, r.status, r.token)
          /\ resp' = Verify(GuardKey(env), r.token)
          /\ UNCHANGED <<store, users, conn, inflight, mail>>

NextKeys ==
  \/ LoginThenGuard
  \/ RefreshThenGuard
  \/ Respond

SpecKeys == Init /\ [][NextKeys]_vars

(***************************************************************************)
(* The logins: user.LoginUser in its two versions and admin.Login.  Each   *)
(* result tells how the handler left the transaction it began: "none" when *)
(* it never began one, "commit", "rollback", "commitfailed", or "open"     *)
(* when it returned without ending it.                                     *)
(***************************************************************************)
\* values of JWT_EXPIRATION: not set, a duration, and two that do not parse
ExpirationEnvs == {EnvUnset, EnvSet("1h"), EnvSet("abc"), EnvSet("")}

\* time.ParseDuration on the values above and on the default "12h"
ParseDuration(s) ==
  IF s = "12h" THEN [ok |-> TRUE, hours |-> 12]
  ELSE IF s = "1h" THEN [ok |-> TRUE, hours |-> 1]
  ELSE [ok |-> FALSE, hours |-> 0]

\* cfg.SuperUsers: the emails of the super users of the configuration file,
\* the ones CreateSuperUserIfNotExists made rows for
SuperUsers == {1}

LoginDTO(email, passwordOK) ==
  [parses |-> TRUE, valid |-> TRUE, email |-> email, passwordOK |-> passwordOK]
LoginFaults == {"begin", "lookup", "commit"}

LoginRes(status, msg, tx, token, hours) ==
  [status |-> status, msg |-> msg, tx |-> tx, token |-> token, hours |-> hours]

\* user.LoginUser (user_login.go)
LoginUser(us, dto, env, fault) ==
  LET exp == ParseDuration(GetEnv(env, "12h"))
      hours == IF exp.ok THEN exp.hours ELSE 12
  IN IF ~dto.parses THEN LoginRes(400, "Invalid request body", "none", EmptyToken, 0)
     ELSE IF ~dto.valid
       THEN LoginRes(400, "Invalid credentials format", "none", EmptyToken, 0)
     ELSE IF fault = "begin"
       THEN LoginRes(500, "Failed to start transaction", "none", EmptyToken, 0)
     ELSE IF fault = "lookup" \/ dto.email \notin us
       THEN LoginRes(401, "Invalid email or password", "open", EmptyToken, 0)
     ELSE IF ~dto.passwordOK
       THEN LoginRes(401, "Invalid email or password", "open", EmptyToken, 0)
     ELSE IF fault = "commit"
       THEN LoginRes(500, "Failed to commit transaction", "commitfailed", EmptyToken, 0)
     ELSE LoginRes(200, "User logged in successfully!", "commit",
                   Sign(JWT_SECRET, FALSE, StrUid(Canon(dto.email))), hours)

\* user.LoginUser (part_012)
LoginUserPart012(us, dto, env, fault) ==
  LET exp == ParseDuration(GetEnv(env, "12h"))
  IN IF ~dto.parses THEN LoginRes(400, "Invalid request body", "none", EmptyToken, 0)
     ELSE IF ~dto.valid
       THEN LoginRes(400, "Invalid credentials format", "none", EmptyToken, 0)
     ELSE IF fault = "begin"
       THEN LoginRes(500, "Failed to start transaction", "none", EmptyToken, 0)
     ELSE IF fault = "lookup" \/ dto.email \notin us
       THEN LoginRes(401, "Invalid email or password", "open", EmptyToken, 0)
     ELSE IF ~dto.passwordOK
       THEN LoginRes(401, "Invalid email or password", "open", EmptyToken, 0)
     ELSE IF ~exp.ok
       THEN LoginRes(500, "Failed to parse JWT expiration duration", "open", EmptyToken, 0)
     ELSE IF fault = "commit"
       THEN LoginRes(500, "Failed to commit transaction", "commitfailed", EmptyToken, 0)
     ELSE LoginRes(200, "User logged in successfully!", "commit",
                   Sign(JWT_SECRET, FALSE, StrUid(Canon(dto.email))), exp.hours)

\* GetAdminByEmail: the ids of the rows with this email
GetAdminByEmail(st, email) == {u \in AdminUUIDs : st[u].exists /\ st[u].email = email}

\* admin.Login (part_016)
Login(st, dto, env, fault) ==
  LET exp == ParseDuration(GetEnv(env, "12h"))
      rows == GetAdminByEmail(st, dto.email)
      admin_uid == CHOOSE u \in rows : TRUE
  IN IF ~dto.parses THEN LoginRes(400, "Invalid request body", "none", EmptyToken, 0)
     ELSE IF ~dto.valid THEN LoginRes(400, "Validation error", "none", EmptyToken, 0)
     ELSE IF dto.email \notin SuperUsers
       THEN LoginRes(401, "Unauthorized", "none", EmptyToken, 0)
     ELSE IF fault = "begin"
       THEN LoginRes(500, "Internal server error", "none", EmptyToken, 0)
     ELSE IF fault = "lookup" \/ rows = {}
       THEN LoginRes(500, "Internal server error", "rollback", EmptyToken, 0)
     ELSE IF ~dto.passwordOK
       THEN LoginRes(401, "Invalid credentials", "rollback", EmptyToken, 0)
     ELSE IF ~exp.ok
       THEN LoginRes(500, "Failed to parse JWT expiration duration", "open", EmptyToken, 0)
     ELSE IF fault = "commit"
       THEN LoginRes(500, "Failed to commit transaction", "commitfailed", EmptyToken, 0)
     ELSE LoginRes(200, "User logged in successfully!", "commit",
                   Sign(JWT_SECRET, FALSE, StrUid(Canon(admin_uid))), exp.hours)

\* bodies of a login: a known and an unknown user, every admin email, with
\* the right or a wrong password, and the bodies that do not parse or validate
UserLoginDTOs ==
  {LoginDTO(e, ok) : e \in {100, 101}, ok \in BOOLEAN}
    \cup {[LoginDTO(100, TRUE) EXCEPT !.parses = FALSE],
          [LoginDTO(100, TRUE) EXCEPT !.valid = FALSE]}
AdminLoginDTOs ==
  {LoginDTO(e, ok) : e \in 1..MaxAdmins, ok \in BOOLEAN}
    \cup {[LoginDTO(1, TRUE) EXCEPT !.parses = FALSE],
          [LoginDTO(1, TRUE) EXCEPT !.valid = FALSE]}

LoginRequest(route, dto, env, fault) ==
  [route |-> route, dto |-> dto, env |-> env, fault |-> fault]

\* a login request served: the handler's result is the response
ServeLoginResult(r, h) ==
  /\ pc' = "done"
  /\ req' = r
  /\ resp' = h
  /\ UNCHANGED <<store, users, conn, inflight, mail>>

\* POST {prefix}/auth/login
ServeLoginUser ==
  /\ pc = "idle"
  /\ \E dto \in UserLoginDTOs, env \in ExpirationEnvs, fault \in {"none"} \cup LoginFaults :
       ServeLoginResult(LoginRequest("LoginUser", dto, env, fault),
                        LoginUser(users, dto, env, fault))

\* the same route served by the other version of the handler
ServeLoginUserPart012 ==
  /\ pc = "idle"
  /\ \E dto \in UserLoginDTOs, env \in ExpirationEnvs, fault \in {"none"} \cup LoginFaults :
       ServeLoginResult(LoginRequest("LoginUserPart012", dto, env, fault),
                        LoginUserPart012(users, dto, env, fault))

\* POST {prefix}/admin/login
ServeLogin ==
  /\ pc = "idle"
  /\ \E dto \in AdminLoginDTOs, env \in ExpirationEnvs, fault \in {"none"} \cup LoginFaults :
       ServeLoginResult(LoginRequest("Login", dto, env, fault),
                        Login(store, dto, env, fault))

NextLogin ==
  \/ ServeLoginUser
  \/ ServeLoginUserPart012
  \/ ServeLogin
  \/ ServeCreateAdmin
  \/ Respond

SpecLogin == Init /\ [][NextLogin]_vars

(***************************************************************************)
(* The handlers that open a transaction with conn.Begin, taken together:   *)
(* the three logins, CreateUser with its email goroutine, and DeleteAdmin. *)
(* Each result carries what became of the transaction: "none" (never       *)
(* begun), "commit", "rollback", "commitfailed", or "open" when the        *)
(* handler returned with neither Commit nor Rollback called.               *)
(***************************************************************************)
NextTx ==
  \/ ServeLoginUser
  \/ ServeLoginUserPart012
  \/ ServeLogin
  \/ HandleCreateUser
  \/ WriteResponse
  \/ EmailGoroutine
  \/ ServeDeleteAdmin
  \/ Respond

SpecTx == Init /\ [][NextTx]_vars

(***************************************************************************)
(* TimeoutMiddleware.  The middleware starts the wrapped handler on a      *)
(* goroutine of its own, handing it the request's ResponseWriter, and      *)
(* selects on ctx.Done() and on the channel the goroutine closes.  The     *)
(* writer is modelled by the calls made on it, in order, each with its     *)
(* caller and whether the middleware had returned by then.  req is the     *)
(* request and the status the wrapped handler answers; resp holds the      *)
(* context, both positions and the writer.                                 *)
(***************************************************************************)
StatusRequestTimeout == 408

\* the statuses the wrapped handlers answer with
HandlerStatuses == {200, 201, 400, 401, 403, 404, 409, 500}

\* one call on the http.ResponseWriter
WriterCall(by, op, code, late) == [by |-> by, op |-> op, code |-> code, late |-> late]

\* the request as the middleware's closure holds it
TimeoutState(ctx, middleware, handler, calls) ==
  [ctx |-> ctx, middleware |-> middleware, handler |-> handler, calls |-> calls]

\* defer cancel(): a context that has not ended yet ends as Canceled
cancel(ctx) == IF ctx = "live" THEN "Canceled" ELSE ctx

\* a request enters the middleware: context.WithTimeout, go func()
ServeTimeout ==
  /\ pc = "idle"
  /\ pc' = "serving"
  /\ \E status \in HandlerStatuses :
       req' = [route |-> "TimeoutMiddleware", status |-> status]
  /\ resp' = TimeoutState("live", "select", "running", <<>>)
  /\ UNCHANGED <<store, users, conn, inflight, mail>>

\* the timer of context.WithTimeout fires
DeadlineExceeded ==
  /\ pc = "serving"
  /\ resp.ctx = "live"
  /\ resp' = [resp EXCEPT !.ctx = "DeadlineExceeded"]
  /\ UNCHANGED <<store, users, pc, req, conn, inflight, mail>>

\* the client goes away: net/http cancels r.Context(), the parent
ClientGone ==
  /\ pc = "serving"
  /\ resp.ctx = "live"
  /\ resp' = [resp EXCEPT !.ctx = "Canceled"]
  /\ UNCHANGED <<store, users, pc, req, conn, inflight, mail>>

\* the wrapped handler, on its goroutine: HttpWriter.Json calls WriteHeader
HandlerWriteHeader ==
  /\ pc = "serving"
  /\ resp.handler = "running"
  /\ resp' = [resp EXCEPT !.handler = "header",
                          !.calls = Append(@, WriterCall("handler", "WriteHeader", req.status,
                                                         resp.middleware = "returned"))]
  /\ UNCHANGED <<store, users, pc, req, conn, inflight, mail>>

\* ... and then Write
HandlerWrite ==
  /\ pc = "serving"
  /\ resp.handler = "header"
  /\ resp' = [resp EXCEPT !.handler = "written",
                          !.calls = Append(@, WriterCall("handler", "Write", req.status,
                                                         resp.middleware = "returned"))]
  /\ UNCHANGED <<store, users, pc, req, conn, inflight, mail>>

\* next.ServeHTTP returns and the goroutine closes done
HandlerReturns ==
  /\ pc = "serving"
  /\ resp.handler = "written"
  /\ resp' = [resp EXCEPT !.handler = "done"]
  /\ UNCHANGED <<store, users, pc, req, conn, inflight, mail>>

\* select, case <-ctx.Done(): on DeadlineExceeded wr.Error starts the 408;
\* on any other error the case ends and the middleware returns
TimeoutCtxDone ==
  /\ pc = "serving"
  /\ resp.middleware = "select"
  /\ resp.ctx # "live"
  /\ resp' = IF resp.ctx = "DeadlineExceeded"
               THEN [resp EXCEPT !.middleware = "header",
                                 !.calls = Append(@, WriterCall("timeout", "WriteHeader",
                                                                StatusRequestTimeout, FALSE))]
               ELSE [resp EXCEPT !.middleware = "returned"]
  /\ UNCHANGED <<store, users, pc, req, conn, inflight, mail>>

\* wr.Error goes on to Write, and the middleware returns
TimeoutWrite ==
  /\ pc = "serving"
  /\ resp.middleware = "header"
  /\ resp' = [resp EXCEPT !.middleware = "returned",
                          !.calls = Append(@, WriterCall("timeout", "Write",
                                                         StatusRequestTimeout, FALSE))]
  /\ UNCHANGED <<store, users, pc, req, conn, inflight, mail>>

\* select, case <-done: the handler finished, the middleware returns
TimeoutDone ==
  /\ pc = "serving"
  /\ resp.middleware = "select"
  /\ resp.handler = "done"
  /\ resp' = [resp EXCEPT !.middleware = "returned", !.ctx = cancel(@)]
  /\ UNCHANGED <<store, users, pc, req, conn, inflight, mail>>

\* both the middleware and the handler's goroutine are through
TimeoutOver ==
  /\ pc = "serving"
  /\ resp.middleware = "returned"
  /\ resp.handler = "done"
  /\ pc' = "done"
  /\ UNCHANGED <<store, users, req, resp, conn, inflight, mail>>

NextTimeout ==
  \/ ServeTimeout
  \/ DeadlineExceeded
  \/ ClientGone
  \/ HandlerWriteHeader
  \/ HandlerWrite
  \/ HandlerReturns
  \/ TimeoutCtxDone
  \/ TimeoutWrite
  \/ TimeoutDone
  \/ TimeoutOver
  \/ Respond

SpecTimeout == Init /\ [][NextTimeout]_vars

(***************************************************************************)
(* Properties of the guards, checked under SpecGuard                       *)
(***************************************************************************)
\* C1: a guard invokes next on a non-public path only if a token was
\* extracted, Verify succeeded and the uid claim is present and non-empty
\* (and, for AdminGuard, the lookup found the admin); in every other case it
\* writes exactly one response, a 401 or a 302, and does not invoke next.
C1_NextOnlyWhenAuthenticated ==
  (pc = "done" /\ req.route \in {"AuthGuard", "AdminGuard"}) =>
    LET admin == req.route = "AdminGuard"
        public == IF admin THEN isAdminPublicPath(req.path)
                  ELSE isUnauthenticatedAllowedPath(req.path)
        token == IF admin THEN AdminExtractToken(req) ELSE AuthExtractToken(req)
        v == Verify(JWT_SECRET, token)
        uidOK == v.claims.present /\ ~(v.claims.isString /\ v.claims.s = EmptyString)
        id == StringToUUID(v.claims.s)
        found == /\ req.inst.Repo /\ req.inst.Conn /\ req.fault # "guard"
                 /\ v.claims.isString /\ id.ok
                 /\ id.uuid \in AdminUUIDs /\ store[id.uuid].exists
        accept == token.kind # "empty" /\ v.ok /\ uidOK /\ (admin => found)
    IN ~public =>
         /\ resp.g.next => accept
         /\ ~accept => /\ ~resp.g.next
                       /\ resp.g.writes = 1
                       /\ resp.g.status \in {401, 302}

\* C2: an AdminGuard built with a nil Repo or a nil Conn rejects every
\* request to a non-login path, whatever token it carries.
C2_NilRepoRejects ==
  (/\ pc = "done" /\ req.route = "AdminGuard"
   /\ (~req.inst.Repo \/ ~req.inst.Conn)
   /\ ~isAdminPublicPath(req.path)) =>
    /\ ~resp.g.next
    /\ resp.g.writes = 1
    /\ resp.g.status \in {401, 302}

\* a valid token of the bootstrap admin, rejected by a guard without a Repo
C2_Witness ==
  /\ pc = "done" /\ req.route = "AdminGuard"
  /\ ~req.inst.Repo /\ req.inst.Conn
  /\ req.path = <<"", "api", "v1", "admin", "create">>
  /\ AdminExtractToken(req) = Sign(JWT_SECRET, FALSE, Uid1)
  /\ ~resp.g.next /\ resp.g.status = 401

\* C3: the uid of a token a guard accepted names an existing principal, a
\* row of users or of super_users for AuthGuard and a row of super_users for
\* AdminGuard.
C3_AcceptedUidIsPrincipal ==
  (/\ pc = "done" /\ req.route \in {"AuthGuard", "AdminGuard"}
   /\ resp.g.next /\ resp.g.ctx.has) =>
    LET id == StringToUUID(resp.g.ctx.id)
        isAdmin == id.uuid \in AdminUUIDs /\ store[id.uuid].exists
    IN /\ id.ok
       /\ IF req.route = "AdminGuard" THEN isAdmin ELSE isAdmin \/ id.uuid \in users

\* the routes AuthGuard leaves open: login and register, as views and under
\* the API prefix
LoginRegisterRoutes ==
  {<<"", "auth", "login">>, <<"", "auth", "register">>,
   <<"", "api", "v1", "auth", "login">>, <<"", "api", "v1", "auth", "register">>}

C5_AdminLoginBypass ==
  (/\ pc = "done" /\ req.route = "AdminGuard"
   /\ req.path \in {<<"", "admin", "login">>, ApiPrefix \o <<"admin", "login">>}) =>
    /\ resp.g.next
    /\ resp.g.writes = 0
    /\ resp.g.token = EmptyToken
    /\ resp.g.verified = "no"
    /\ resp.g.lookup = "none"
    /\ ~resp.g.ctx.has

\* a request to the API login path with a token that would not verify and a
\* guard without a Repo
C5_Witness ==
  /\ pc = "done" /\ req.route = "AdminGuard"
  /\ req.path = ApiPrefix \o <<"admin", "login">>
  /\ req.admin_jwt = Cookie(GarbageToken)
  /\ ~req.inst.Repo
  /\ resp.g.next

\* C6: when the admin lookup fails with an error other than not-found, the
\* response is a server fault (5xx), a status class the not-found response
\* does not have.
C6_LookupErrorIsServerFault ==
  (/\ pc = "done" /\ req.route = "AdminGuard"
   /\ req.fault = "guard" /\ resp.g.lookup = "error") =>
    resp.g.status \in 500..599

(***************************************************************************)
(* Properties of the permission checks, checked under Spec                 *)
(***************************************************************************)
\* C7: CreateAdmin and UpdateAdmin with the requested role SUPER_ADMIN, by
\* an acting admin whose stored role is not SUPER_ADMIN, never succeed and
\* leave the set of SUPER_ADMIN rows as it was; when the request is well
\* formed and no database call fails the answer is 403 after a rollback.
C7_OnlySuperAssignsSuper ==
  [][LET r == req'
         create == r.route = "CreateAdmin"
         role == IF create THEN r.cdto.role ELSE r.udto.role
         a == StringToUUID(resp'.g.ctx.id)
         t == StringToUUID(r.target)
         supers(st) == {u \in AdminUUIDs : st[u].exists /\ st[u].role = "SUPER_ADMIN"}
         wellFormed ==
           /\ r.fault = "none"
           /\ IF create
                THEN r.cdto.parses /\ CreateAdminDTO_Validate(r.cdto)
                ELSE /\ r.udto.parses /\ UpdateAdminDTO_Validate(r.udto)
                     /\ t.ok /\ t.uuid \in AdminUUIDs /\ store[t.uuid].exists
     IN (/\ pc' = "done" /\ r.route \in {"CreateAdmin", "UpdateAdmin"}
         /\ role = ADMIN_ROLE_SUPERADMIN
         /\ resp'.h.ran /\ resp'.g.ctx.has
         /\ a.ok /\ a.uuid \in AdminUUIDs /\ store[a.uuid].exists
         /\ store[a.uuid].role # "SUPER_ADMIN") =>
          /\ resp'.h.status \notin {200, 201}
          /\ supers(store') = supers(store)
          /\ wellFormed => resp'.h.status = 403 /\ resp'.h.tx = "rollback"
    ]_vars

\* an admin who passes the permission check is refused the role
C7_Witness ==
  /\ pc = "done" /\ req.route \in {"CreateAdmin", "UpdateAdmin"}
  /\ resp.h.perm = "pass" /\ resp.h.promo = "deny"
  /\ resp.h.status = 403

\* C8: when the acting admin and the target are the same account, DeleteAdmin
\* by a SUPER_ADMIN is denied with 403 and commits nothing, and UpdateAdmin
\* passes its permission check whatever the role and permissions.
C8_SelfTarget ==
  LET a == StringToUUID(resp.g.ctx.id)
      t == StringToUUID(req.target)
  IN (/\ pc = "done" /\ req.route \in {"DeleteAdmin", "UpdateAdmin"}
      /\ resp.h.ran /\ resp.g.ctx.has /\ req.fault = "none"
      /\ a.ok /\ t.ok /\ a.uuid = t.uuid
      /\ a.uuid \in AdminUUIDs /\ store[a.uuid].exists
      /\ req.route = "UpdateAdmin" =>
           req.udto.parses /\ UpdateAdminDTO_Validate(req.udto)) =>
       /\ (req.route = "DeleteAdmin" /\ store[a.uuid].role = "SUPER_ADMIN") =>
             resp.h.status = 403 /\ resp.h.tx # "commit"
       /\ req.route = "UpdateAdmin" => resp.h.perm = "pass"

\* C9: an acting admin who is not SUPER_ADMIN, on another account, passes
\* the permission check of UpdateAdmin, DeleteAdmin and SendVerificationEmail
\* exactly when it holds MANAGE_USERS and the target is not a SUPER_ADMIN.
C9_ManageUsersOnNonSuper ==
  LET a == StringToUUID(resp.g.ctx.id)
      t == StringToUUID(req.target)
  IN (/\ pc = "done"
      /\ req.route \in {"UpdateAdmin", "DeleteAdmin", "SendVerificationEmail"}
      /\ resp.h.ran /\ resp.g.ctx.has /\ req.fault = "none"
      /\ req.route = "UpdateAdmin" =>
           req.udto.parses /\ UpdateAdminDTO_Validate(req.udto)
      /\ a.ok /\ t.ok /\ a.uuid # t.uuid
      /\ a.uuid \in AdminUUIDs /\ store[a.uuid].exists
      /\ t.uuid \in AdminUUIDs /\ store[t.uuid].exists
      /\ store[a.uuid].role # "SUPER_ADMIN") =>
       /\ resp.h.perm \in {"pass", "deny"}
       /\ resp.h.perm = "pass" <=>
            /\ ADMIN_PERMISSION_MANAGE_USERS \in store[a.uuid].perms
            /\ store[t.uuid].role # "SUPER_ADMIN"

\* an EDITOR or ADMIN holding MANAGE_USERS deletes another account that is
\* not a SUPER_ADMIN
C9_Witness ==
  LET a == StringToUUID(resp.g.ctx.id)
      t == StringToUUID(req.target)
  IN /\ pc = "done" /\ req.route = "DeleteAdmin"
     /\ resp.h.ran /\ resp.g.ctx.has /\ a.ok /\ t.ok /\ a.uuid # t.uuid
     /\ store[a.uuid].role # "SUPER_ADMIN"
     /\ ADMIN_PERMISSION_MANAGE_USERS \in store[a.uuid].perms
     /\ store[t.uuid].exists /\ store[t.uuid].role # "SUPER_ADMIN"
     /\ resp.h.perm = "pass" /\ resp.h.status = 200

\* C10: a SUPER_ADMIN is denied by no permission check of the admin handlers
\* except when it deletes its own account, and passes every check it
\* reaches: create, update, view by id, search, send-verification and the
\* delete of another account.
C10_SuperAdminAlwaysAuthorized ==
  LET a == StringToUUID(resp.g.ctx.id)
      t == StringToUUID(req.target)
      selfDelete == req.route = "DeleteAdmin" /\ t.ok /\ t.uuid = a.uuid
      targetExists == t.ok /\ t.uuid \in AdminUUIDs /\ store[t.uuid].exists
      wellFormed ==
        /\ req.fault = "none"
        /\ req.route = "CreateAdmin" =>
             req.cdto.parses /\ CreateAdminDTO_Validate(req.cdto)
        /\ req.route = "UpdateAdmin" =>
             req.udto.parses /\ UpdateAdminDTO_Validate(req.udto)
        /\ req.route \in {"UpdateAdmin", "DeleteAdmin", "SendVerificationEmail",
                          "GetAdminByID"} => targetExists
  IN (/\ pc = "done"
      /\ req.route \in {"CreateAdmin", "UpdateAdmin", "DeleteAdmin",
                        "SendVerificationEmail", "GetAdminByID", "SearchAdminByQuery"}
      /\ resp.h.ran /\ resp.g.ctx.has
      /\ a.ok /\ a.uuid \in AdminUUIDs /\ store[a.uuid].exists
      /\ store[a.uuid].role = "SUPER_ADMIN") =>
       /\ resp.h.perm = "deny" => selfDelete
       /\ (wellFormed /\ ~selfDelete) => resp.h.perm = "pass"

\* a SUPER_ADMIN that does not hold MANAGE_USERS deletes another account
C10_Witness ==
  LET a == StringToUUID(resp.g.ctx.id)
      t == StringToUUID(req.target)
  IN /\ pc = "done" /\ req.route = "DeleteAdmin"
     /\ resp.h.ran /\ resp.g.ctx.has /\ a.ok /\ t.ok /\ a.uuid # t.uuid
     /\ store[a.uuid].role = "SUPER_ADMIN"
     /\ ADMIN_PERMISSION_MANAGE_USERS \notin store[a.uuid].perms
     /\ resp.h.perm = "pass" /\ resp.h.status = 200

C12_ExpiredRejected ==
  (/\ pc = "done" /\ req.route \in {"SignVerify", "VerifyAltered"}
   /\ req.token.kind = "jwt" /\ req.token.expired) =>
    ~resp.ok /\ resp.claims = NoUid

\* an expired token, unaltered, verified under the key that signed it
C12_Witness ==
  /\ pc = "done" /\ req.route = "SignVerify"
  /\ req.signKey = JWT_SECRET /\ req.verifyKey = JWT_SECRET
  /\ req.expired /\ req.uid = Uid1
  /\ ~resp.ok

\* C13: Verify returns an error and no claims for every token signed with
\* another key than the verifier's, and for every token whose signature was
\* altered after signing.
C13_ForeignSignatureRejected ==
  (/\ pc = "done" /\ req.route \in {"SignVerify", "VerifyAltered"}
   /\ req.token.kind = "jwt"
   /\ (req.signKey # req.verifyKey \/ req.how = "tamper")) =>
    ~resp.ok /\ resp.claims = NoUid

\* an unexpired token of the verifier's own key with an altered signature
C13_Witness ==
  /\ pc = "done" /\ req.route = "VerifyAltered" /\ req.how = "tamper"
  /\ req.signKey = JWT_SECRET /\ req.verifyKey = JWT_SECRET
  /\ ~req.expired /\ req.uid = Uid1
  /\ ~resp.ok

\* C14: Verify rejects every token whose declared algorithm is outside the
\* HMAC family, "none" and the asymmetric ones included, and the key
\* function does not hand out the secret key for it.
C14_NonHMACRejected ==
  (/\ pc = "done" /\ req.route \in {"SignVerify", "VerifyAltered"}
   /\ req.token.kind = "jwt"
   /\ req.token.alg \notin {"HS256", "HS384", "HS512"}) =>
    ~resp.ok /\ resp.claims = NoUid /\ ~resp.keyed

\* an unexpired token of the verifier's own key whose header says RS256
C14_Witness ==
  /\ pc = "done" /\ req.route = "VerifyAltered" /\ req.how = "RS256"
  /\ req.signKey = JWT_SECRET /\ req.verifyKey = JWT_SECRET
  /\ ~req.expired /\ req.uid = Uid1
  /\ ~resp.ok /\ ~resp.keyed

(***************************************************************************)
(* Further properties of the guards, checked under SpecGuard               *)
(***************************************************************************)
\* C15: in JSON mode on a protected path, the status and the message a
\* guard sends for a token that is malformed, wrongly signed, expired or
\* without uid are those it sends for a request without any token.
C15_RejectionsIndistinguishable ==
  (/\ pc = "done" /\ req.route \in {"AuthGuard", "AdminGuard"}
   /\ ~req.inst.Redirect) =>
    LET admin == req.route = "AdminGuard"
        public == IF admin THEN isAdminPublicPath(req.path)
                  ELSE isUnauthenticatedAllowedPath(req.path)
        token == IF admin THEN AdminExtractToken(req) ELSE AuthExtractToken(req)
        v == Verify(JWT_SECRET, token)
        bare == [req EXCEPT !.admin_jwt = NoCookie, !.jwt = NoCookie, !.auth = NoHeader]
        noToken == IF admin THEN AdminGuard(req.inst, bare, store, FALSE)
                   ELSE AuthGuard(req.inst, bare)
    IN (~public /\ token.kind # "empty" /\ (~v.ok \/ UidMissing(v.claims))) =>
         /\ resp.g.status = noToken.status
         /\ resp.g.msg = noToken.msg

\* C17: however the requests served at the same time interleave, each ends
\* as it would alone: once no request is in a transaction, a CreateAdmin
\* that was answered 201 has its admin in the table, as it has when the
\* request runs alone (no request removes a row).
C17_ConcurrentAsAlone ==
  \A t \in Threads :
    (/\ inflight[t].pc = "done" /\ inflight[t].status = 201
     /\ ~conn.tx
     /\ \A o \in Threads : inflight[o].pc \in {"idle", "done"}) =>
      \E u \in AdminUUIDs : store[u] = inflight[t].made

\* C18: when the request context is cancelled or its deadline expires
\* while AdminMiddleware.Guard waits for the admin lookup, the guard answers
\* with a 503 or a 408 and does not invoke next.
C18_CancelledLookupFails ==
  (/\ pc = "done" /\ req.route = "AdminGuard"
   /\ req.fault = "cancel" /\ resp.g.lookup = "error") =>
    /\ ~resp.g.next
    /\ resp.g.writes = 1
    /\ resp.g.status \in {408, 503}

\* C16: every admin request is decided on the rows stored when it is served,
\* whatever they were when its token was issued: a token whose admin row is
\* gone is never answered 200 and, off the login path, is rejected by
\* AdminGuard with 401; DELETE on another, existing admin
\* answers 403 when the actor's row is now neither SUPER_ADMIN nor holds
\* MANAGE_USERS, and 200 when it now holds MANAGE_USERS and the target is not
\* a SUPER_ADMIN.
C16_DecidedOnCurrentRows ==
  (/\ pc = "done" /\ req.route \in {"UpdateAdmin", "DeleteAdmin"}
   /\ req.fault = "none"
   /\ Verify(JWT_SECRET, AdminExtractToken(req)).ok
   /\ Verify(JWT_SECRET, AdminExtractToken(req)).claims.isString) =>
    LET uid == Verify(JWT_SECRET, AdminExtractToken(req)).claims.s
        actor == StringToUUID(uid)
        target == StringToUUID(req.target)
    IN /\ (actor.uuid \in AdminUUIDs /\ ~store[actor.uuid].exists) =>
            /\ resp.h.status # 200
            /\ ~isAdminPublicPath(req.path) =>
                 (~resp.g.next /\ resp.g.status = 401 /\ ~resp.h.ran)
       /\ (/\ actor.uuid \in AdminUUIDs /\ store[actor.uuid].exists
           /\ req.route = "DeleteAdmin"
           /\ req.target.form = "canon" /\ target.uuid # actor.uuid
           /\ store[target.uuid].exists) =>
            /\ resp.g.next /\ resp.h.ran
            /\ (/\ store[actor.uuid].role # ADMIN_ROLE_SUPERADMIN
                /\ ADMIN_PERMISSION_MANAGE_USERS \notin store[actor.uuid].perms)
                 => resp.h.status = 403
            /\ (/\ ADMIN_PERMISSION_MANAGE_USERS \in store[actor.uuid].perms
                /\ store[target.uuid].role # ADMIN_ROLE_SUPERADMIN)
                 => resp.h.status = 200

\* the token of the bootstrap admin, issued while its row was SUPER_ADMIN
\* with every permission; the row has since lost role and MANAGE_USERS and
\* its DELETE of admin 2 is answered 403
C16_Witness ==
  /\ pc = "done" /\ req.route = "DeleteAdmin" /\ req.fault = "none"
  /\ AdminExtractToken(req) = Sign(JWT_SECRET, FALSE, Uid1)
  /\ store[1] = Row(ADMIN_ROLE_ADMIN, {ADMIN_PERMISSION_VIEW_REPORTS}, 1, 1)
  /\ req.target = Canon(2) /\ store[2].exists
  /\ resp.g.next /\ resp.h.status = 403

\* C19: CreateUser and SendVerificationEmail write their response whatever
\* the email goroutine is doing, 201 and 200 with their fixed bodies; a
\* goroutine that ends, delivered or not, leaves the request and what was
\* written to the client as they are, and one that ends without delivering
\* leaves an error line in the log.
C19_MailNeverReachesClient ==
  [][/\ (pc = "queued" /\ pc' = "done") =>
          /\ resp'.written
          /\ resp'.status = (IF req.route = "CreateUser" THEN 201 ELSE 200)
          /\ resp'.msg = (IF req.route = "CreateUser"
                            THEN "User registration endpoint reached successfully"
                            ELSE "Verification email queued for sending")
     /\ Len(mail'.running) < Len(mail.running) =>
          /\ pc' = pc /\ req' = req /\ resp' = resp
          /\ mail'.done.res # "MailerSuccess" => mail'.done.line # ""]_vars

\* the 201 of a registration is with the client while its mail is still in
\* the making, and stays as it is when the send fails afterwards
C19_Witness ==
  /\ pc = "done" /\ req.route = "CreateUser"
  /\ mail.running = <<>>
  /\ mail.done.job = Job(req.r.email, "CreateUser")
  /\ mail.done.res = "MailerFailure"
  /\ mail.done.line = "Error sending verification email"
  /\ resp = Writer(TRUE, 201, "User registration endpoint reached successfully")

(***************************************************************************)
(* Properties of the signing key, checked under SpecKeys                   *)
(***************************************************************************)
\* C20: every issuance path signs with the key the guards verify with,
\* whether or not JWT_SECRET is set, so every token a login or
\* RefreshUserToken issued verifies in both guards.
C20_OneSigningKey ==
  (pc = "done" /\ req.route \in {"LoginThenGuard", "RefreshThenGuard"}) =>
    /\ req.issuerKey = req.guardKey
    /\ req.status = 200 => resp.ok


\* C21: neither guard panics: on every token that passes Verify, a uid claim
\* that is not a string included, the guard invokes next or writes one
\* unauthorized response.
C21_GuardNeverPanics ==
  (/\ pc = "done" /\ req.route \in {"AuthGuard", "AdminGuard"}
   /\ resp.g.verified = "ok") =>
    /\ ~resp.g.panicked
    /\ resp.g.next \/ (resp.g.writes = 1 /\ resp.g.status \in {401, 302})


\* the routes of the admin group other than POST /admin/login
AdminGroupRoutes ==
  {"CreateAdmin", "UpdateAdmin", "DeleteAdmin", "SendVerificationEmail",
   "GetAdminByID", "GetAdminByUserName", "SearchAdminByQuery", "GetAllAdmins"}

\* C22: a handler of the admin route group other than the login handler runs
\* only after AdminMiddleware.Guard accepted the request: the token was
\* verified and its uid is the id of an existing admin.
C22_AdminRoutesGuarded ==
  (/\ pc = "done" /\ req.route \in AdminGroupRoutes /\ resp.h.ran) =>
    /\ resp.g.next
    /\ resp.g.verified = "ok"
    /\ resp.g.lookup = "found"


\* the request with every source of a token after the first present one
\* taken away
C23_FirstSourceOnly(r, admin) ==
  IF admin /\ r.admin_jwt.present THEN [r EXCEPT !.jwt = NoCookie, !.auth = NoHeader]
  ELSE IF r.jwt.present
    THEN [r EXCEPT !.admin_jwt = IF admin THEN NoCookie ELSE @, !.auth = NoHeader]
  ELSE r

\* C23: the guards take the token from the first source that is present,
\* admin_jwt cookie (AdminMiddleware only), jwt cookie, Bearer header, else
\* the empty string, and what the later sources hold never matters: the
\* guard decides as it does on the request without them, also when the
\* first source holds an empty or an invalid token.
C23_ExtractionOrder ==
  (pc = "done" /\ req.route \in {"AuthGuard", "AdminGuard"}) =>
    LET admin == req.route = "AdminGuard"
        first == IF admin /\ req.admin_jwt.present THEN req.admin_jwt.tok
                 ELSE IF req.jwt.present THEN req.jwt.tok
                 ELSE IF req.auth.scheme = "Bearer " THEN req.auth.tok
                 ELSE EmptyToken
        only == C23_FirstSourceOnly(req, admin)
    IN /\ (admin /\ ~isAdminPublicPath(req.path)) => resp.g.token = first
       /\ ~admin => resp.g.token = first
       /\ resp.g = IF admin THEN AdminGuard(req.inst, only, store, req.fault \in LookupFaults)
                   ELSE AuthGuard(req.inst, only)

\* an empty admin_jwt cookie in front of a jwt cookie with a valid token of
\* the bootstrap admin: the guard sees no token and rejects
C23_Witness ==
  /\ pc = "done" /\ req.route = "AdminGuard"
  /\ req.admin_jwt = Cookie(EmptyToken)
  /\ req.jwt = Cookie(Sign(JWT_SECRET, FALSE, Uid1))
  /\ ~isAdminPublicPath(req.path)
  /\ resp.g.token = EmptyToken
  /\ ~resp.g.next /\ resp.g.msg = "Admin authentication required"


\* C24: with a JWT_EXPIRATION that does not parse as a duration, a login that
\* is otherwise in order (known account, right password, no database
\* failure) is answered 200 with a token that lives the default 12 hours, on
\* the user login and on the admin login.
C24_UnparsableLifetimeDefaults ==
  (/\ pc = "done" /\ req.route \in {"LoginUser", "LoginUserPart012", "Login"}
   /\ req.dto.parses /\ req.dto.valid /\ req.dto.passwordOK /\ req.fault = "none"
   /\ IF req.route = "Login"
        THEN req.dto.email \in SuperUsers /\ GetAdminByEmail(store, req.dto.email) # {}
        ELSE req.dto.email \in users
   /\ ~ParseDuration(GetEnv(req.env, "12h")).ok) =>
    /\ resp.status = 200
    /\ resp.token.kind = "jwt"
    /\ resp.hours = 12


\* C25: an admin created by CreateAdmin (201) logs in on the admin Login
\* endpoint with its email and password: the login is answered 200 and
\* AdminMiddleware.Guard accepts the token it hands out.
C25_CreatedAdminLogsIn ==
  (/\ pc = "done" /\ req.route = "Login"
   /\ req.dto.parses /\ req.dto.valid /\ req.dto.passwordOK /\ req.fault = "none"
   /\ ParseDuration(GetEnv(req.env, "12h")).ok
   /\ \E u \in AdminUUIDs \ {1} : store[u].exists /\ store[u].email = req.dto.email) =>
    /\ resp.status = 200
    /\ AdminGuard(AdminRouteGuard,
                  Request("GetAdminByID", ApiPrefix \o <<"admin", "<uuid>">>,
                          AdminRouteGuard, <<NoCookie, Cookie(resp.token), NoHeader>>,
                          Canon(1), NoCreateDTO, NoUpdateDTO, 0, "none"),
                  store, FALSE).next


\* C26: when DeleteAdmin answers 200 the target's row is gone from
\* super_users, so the guard no longer finds it; on every other outcome of
\* DeleteAdmin the table is as it was.
C26_DeleteRemovesRow ==
  [][(pc = "idle" /\ pc' = "done" /\ req'.route = "DeleteAdmin") =>
       IF resp'.h.status = 200
         THEN \A u \in resp'.h.found :
                /\ ~store'[u].exists
                /\ ~verifyAdminStatus(AdminRouteGuard, store', Canon(u), FALSE).isAdmin
         ELSE store' = store]_vars


\* C27: an admin that is neither SUPER_ADMIN nor holds MANAGE_USERS gets no
\* record but its own from the read endpoints: get by id, get by username,
\* search and list all.
C27_ReadsNeedManageUsers ==
  (/\ pc = "done"
   /\ req.route \in {"GetAdminByID", "GetAdminByUserName", "SearchAdminByQuery",
                     "GetAllAdmins"}
   /\ Verify(JWT_SECRET, AdminExtractToken(req)).ok
   /\ Verify(JWT_SECRET, AdminExtractToken(req)).claims.isString) =>
    LET actor == StringToUUID(Verify(JWT_SECRET, AdminExtractToken(req)).claims.s)
    IN (/\ actor.ok /\ actor.uuid \in AdminUUIDs /\ store[actor.uuid].exists
        /\ store[actor.uuid].role # ADMIN_ROLE_SUPERADMIN
        /\ ADMIN_PERMISSION_MANAGE_USERS \notin store[actor.uuid].perms) =>
         (resp.h.status = 200 => resp.h.found \subseteq {actor.uuid})


\* C28: every handler that begins a transaction on its connection ends it
\* with a commit or a rollback before it returns: no response of the logins,
\* of CreateUser or of DeleteAdmin leaves the transaction open.
C28_TransactionEnded ==
  pc = "done" =>
    /\ req.route \in {"LoginUser", "LoginUserPart012", "Login"} => resp.tx # "open"
    /\ req.route = "CreateUser" => req.tx # "open"
    /\ req.route = "DeleteAdmin" => resp.h.tx # "open"


\* C29: under TimeoutMiddleware at most one response is written per request:
\* the calls on the ResponseWriter all come from one writer, either the
\* timeout branch or the wrapped handler, and the handler makes none after
\* the middleware has returned.
C29_OneResponsePerRequest ==
  (pc \in {"serving", "done"} /\ req.route = "TimeoutMiddleware") =>
    /\ Cardinality({resp.calls[i].by : i \in DOMAIN resp.calls}) <= 1
    /\ \A i \in DOMAIN resp.calls : ~resp.calls[i].late


\* C30: a CreateAdmin, UpdateAdmin or DeleteAdmin request of an actor whose
\* stored role is not SUPER_ADMIN leaves the SUPER_ADMIN accounts as they
\* were: none is added, promoted, modified or removed.
C30_SuperAdminsUntouched ==
  [][LET a == StringToUUID(resp'.g.ctx.id)
         super(row) == row.exists /\ row.role = ADMIN_ROLE_SUPERADMIN
     IN (/\ pc' = "done"
         /\ req'.route \in {"CreateAdmin", "UpdateAdmin", "DeleteAdmin"}
         /\ resp'.g.ctx.has /\ a.ok /\ a.uuid \in AdminUUIDs
         /\ store[a.uuid].exists
         /\ store[a.uuid].role # ADMIN_ROLE_SUPERADMIN) =>
          \A u \in AdminUUIDs :
             (super(store[u]) \/ super(store'[u])) => store'[u] = store[u]]_vars

\* an admin that is not a super admin has created an account, and has asked
\* for it with the role SUPER_ADMIN or not
C30_Witness ==
  LET a == StringToUUID(resp.g.ctx.id)
  IN /\ pc = "done" /\ req.route = "CreateAdmin"
     /\ resp.g.ctx.has /\ a.ok /\ a.uuid \in AdminUUIDs
     /\ resp.h.status = 201
     /\ \E u \in resp.h.found : u # a.uuid /\ store[u].exists
     /\ store[a.uuid].exists /\ store[a.uuid].role # ADMIN_ROLE_SUPERADMIN
     /\ \E u \in AdminUUIDs : store[u].exists /\ store[u].role = ADMIN_ROLE_SUPERADMIN

====
